---- MODULE Spec2Model ----
(***************************************************************************)
(* A model of the resolution engine of rym-to-spotify: the persistent      *)
(* cache (cache_manager.py) and the resolvers of txt-to-spotify.py.        *)
(*                                                                         *)
(* Python strings are sequences of one-character strings, so that lower(), *)
(* strip(), sorting, json.dumps and json.loads are computed character by   *)
(* character.  Python values are tagged records (PyNone, PyStr, ...).      *)
(***************************************************************************)
EXTENDS Integers, Sequences, FiniteSets, TLC

(***************************************************************************)
(* Python values                                                           *)
(***************************************************************************)
PyNone == [t |-> "none"]
PyStr(s) == [t |-> "str", s |-> s]
PyInt(i) == [t |-> "int", i |-> i]
\* a float with an integral value (the only floats the model produces)
PyFloat(i) == [t |-> "float", f |-> i]
PyBool(b) == [t |-> "bool", b |-> b]
PyList(l) == [t |-> "list", l |-> l]
\* a dict with string keys: a function from keys to values
PyDict(d) == [t |-> "dict", d |-> d]

(***************************************************************************)
(* Python strings                                                          *)
(***************************************************************************)
\* the printable ASCII characters in code point order (32..126); the grave
\* accent (96) is written GRAVE
Ascii ==
  << " ", "!", "\"", "#", "$", "%", "&", "'", "(", ")", "*", "+", ",", "-", ".", "/",
     "0", "1", "2", "3", "4", "5", "6", "7", "8", "9", ":", ";", "<", "=", ">", "?",
     "@", "A", "B", "C", "D", "E", "F", "G", "H", "I", "J", "K", "L", "M", "N", "O",
     "P", "Q", "R", "S", "T", "U", "V", "W", "X", "Y", "Z", "[", "\\", "]", "^", "_",
     "GRAVE", "a", "b", "c", "d", "e", "f", "g", "h", "i", "j", "k", "l", "m", "n", "o",
     "p", "q", "r", "s", "t", "u", "v", "w", "x", "y", "z", "{", "|", "}", "~" >>

Chars == {Ascii[i] : i \in 1..Len(Ascii)}

\* ord(c) - 31
Ord == [c \in Chars |-> CHOOSE i \in 1..Len(Ascii) : Ascii[i] = c]

IsUpper(c) == Ord[c] >= Ord["A"] /\ Ord[c] <= Ord["Z"]

IsDigit(c) == Ord[c] >= Ord["0"] /\ Ord[c] <= Ord["9"]

\* str.lower() on ASCII text
lower(s) == [i \in 1..Len(s) |-> IF IsUpper(s[i]) THEN Ascii[Ord[s[i]] + 32] ELSE s[i]]

RECURSIVE lstrip(_)
lstrip(s) == IF s # <<>> /\ Head(s) = " " THEN lstrip(Tail(s)) ELSE s

RECURSIVE rstrip(_)
rstrip(s) == IF s # <<>> /\ s[Len(s)] = " " THEN rstrip(SubSeq(s, 1, Len(s) - 1)) ELSE s

\* str.strip(): the model's only whitespace character is the space
strip(s) == rstrip(lstrip(s))

\* a < b for Python strings: code point order, a proper prefix first
RECURSIVE StrLess(_, _)
StrLess(a, b) ==
  IF b = <<>> THEN FALSE
  ELSE IF a = <<>> THEN TRUE
  ELSE IF Head(a) # Head(b) THEN Ord[Head(a)] < Ord[Head(b)]
  ELSE StrLess(Tail(a), Tail(b))

\* sorted(S) for a finite set of strings
RECURSIVE SortedStrs(_)
SortedStrs(S) ==
  IF S = {} THEN <<>>
  ELSE LET m == CHOOSE x \in S : \A y \in S \ {x} : StrLess(x, y)
       IN <<m>> \o SortedStrs(S \ {m})

\* sep.join(parts)
RECURSIVE Join(_, _)
Join(sep, parts) ==
  IF parts = <<>> THEN <<>>
  ELSE IF Len(parts) = 1 THEN parts[1]
  ELSE Join(sep, SubSeq(parts, 1, Len(parts) \div 2)) \o sep
         \o Join(sep, SubSeq(parts, (Len(parts) \div 2) + 1, Len(parts)))

\* str(n) for an integer n >= 0
RECURSIVE IntToStr(_)
IntToStr(n) ==
  IF n < 10 THEN <<Ascii[Ord["0"] + n]>>
  ELSE IntToStr(n \div 10) \o <<Ascii[Ord["0"] + (n % 10)]>>

\* str(v) and the f-string rendering of a scalar value
py_str(v) ==
  CASE v.t = "str" -> v.s
    [] v.t = "int" -> IntToStr(v.i)
    [] v.t = "float" -> IntToStr(v.f) \o <<".", "0">>
    [] v.t = "bool" -> IF v.b THEN <<"T", "r", "u", "e">> ELSE <<"F", "a", "l", "s", "e">>
    [] v.t = "none" -> <<"N", "o", "n", "e">>

(***************************************************************************)
(* json.dumps(value, sort_keys=True) and json.loads                        *)
(*                                                                         *)
(* The texts of the model hold no sign, no fraction and no escape other    *)
(* than \" and \\, and their only whitespace is the space.                 *)
(***************************************************************************)
\* the body of a JSON string literal: '"' and '\' are escaped
RECURSIVE JsonEscape(_)
JsonEscape(s) ==
  IF s = <<>> THEN <<>>
  ELSE IF Head(s) \in {"\"", "\\"} THEN <<"\\", Head(s)>> \o JsonEscape(Tail(s))
  ELSE <<Head(s)>> \o JsonEscape(Tail(s))

JsonString(s) == <<"\"">> \o JsonEscape(s) \o <<"\"">>

RECURSIVE JsonDumps(_)
JsonDumps(v) ==
  CASE v.t = "none" -> <<"n", "u", "l", "l">>
    [] v.t = "bool" -> IF v.b THEN <<"t", "r", "u", "e">> ELSE <<"f", "a", "l", "s", "e">>
    [] v.t = "int" -> IntToStr(v.i)
    [] v.t = "str" -> JsonString(v.s)
    [] v.t = "list" ->
         <<"[">> \o Join(<<",", " ">>, [i \in 1..Len(v.l) |-> JsonDumps(v.l[i])]) \o <<"]">>
    [] v.t = "dict" ->
         LET keys == SortedStrs(DOMAIN v.d)
         IN <<"{">>
              \o Join(<<",", " ">>,
                      [i \in 1..Len(keys) |->
                         JsonString(keys[i]) \o <<":", " ">> \o JsonDumps(v.d[keys[i]])])
              \o <<"}">>

\* the result of a parsing step: the value read and the text after it
Parsed(v, rest) == [ok |-> TRUE, v |-> v, rest |-> rest]

ParseError == [ok |-> FALSE]

IsPrefix(p, s) == Len(p) <= Len(s) /\ SubSeq(s, 1, Len(p)) = p

DropPrefix(p, s) == SubSeq(s, Len(p) + 1, Len(s))

\* the digits at the start of s, as (number, number of digits)
RECURSIVE ScanDigits(_, _, _)
ScanDigits(s, n, k) ==
  IF s # <<>> /\ IsDigit(Head(s))
  THEN ScanDigits(Tail(s), 10 * n + (Ord[Head(s)] - Ord["0"]), k + 1)
  ELSE <<n, k>>

RECURSIVE Pow10(_)
Pow10(e) == IF e = 0 THEN 1 ELSE 10 * Pow10(e - 1)

\* a number at the start of s: 0 or a digit string without leading zero, then
\* an optional exponent, which makes it a float
ParseNumber(s) ==
  LET int == IF Head(s) = "0" THEN <<0, 1>> ELSE ScanDigits(s, 0, 0)
      after == SubSeq(s, int[2] + 1, Len(s))
      exp == IF after # <<>> /\ Head(after) \in {"e", "E"}
             THEN ScanDigits(Tail(after), 0, 0) ELSE <<0, 0>>
  IN IF exp[2] > 0
     THEN Parsed(PyFloat(int[1] * Pow10(exp[1])), SubSeq(after, exp[2] + 2, Len(after)))
     ELSE Parsed(PyInt(int[1]), after)

\* the body of a string literal up to its closing quote
RECURSIVE ParseString(_, _)
ParseString(s, acc) ==
  IF s = <<>> THEN ParseError
  ELSE IF Head(s) = "\"" THEN Parsed(PyStr(acc), Tail(s))
  ELSE IF Head(s) = "\\"
       THEN IF Len(s) >= 2 /\ s[2] \in {"\"", "\\"}
            THEN ParseString(SubSeq(s, 3, Len(s)), Append(acc, s[2]))
            ELSE ParseError
  ELSE ParseString(Tail(s), Append(acc, Head(s)))

RECURSIVE ParseValue(_)
RECURSIVE ParseArrayItems(_, _)
RECURSIVE ParseObjectItems(_, _)

\* the items of an array after '[' or ',': a value, then ',' or ']'
ParseArrayItems(s, acc) ==
  LET item == ParseValue(lstrip(s))
  IN IF ~item.ok THEN ParseError
     ELSE LET rest == lstrip(item.rest)
          IN IF rest = <<>> THEN ParseError
             ELSE IF Head(rest) = "," THEN ParseArrayItems(Tail(rest), Append(acc, item.v))
             ELSE IF Head(rest) = "]" THEN Parsed(PyList(Append(acc, item.v)), Tail(rest))
             ELSE ParseError

\* the items of an object after '{' or ',': "key" ':' value, then ',' or '}'
ParseObjectItems(s, acc) ==
  LET start == lstrip(s)
      key == IF start # <<>> /\ Head(start) = "\"" THEN ParseString(Tail(start), <<>>)
             ELSE ParseError
  IN IF ~key.ok THEN ParseError
     ELSE LET colon == lstrip(key.rest)
          IN IF colon = <<>> \/ Head(colon) # ":" THEN ParseError
             ELSE LET item == ParseValue(lstrip(Tail(colon)))
                  IN IF ~item.ok THEN ParseError
                     ELSE LET rest == lstrip(item.rest)
                              d == (key.v.s :> item.v) @@ acc
                          IN IF rest = <<>> THEN ParseError
                             ELSE IF Head(rest) = "," THEN ParseObjectItems(Tail(rest), d)
                             ELSE IF Head(rest) = "}" THEN Parsed(PyDict(d), Tail(rest))
                             ELSE ParseError

ParseValue(s) ==
  IF s = <<>> THEN ParseError
  ELSE IF Head(s) = "\"" THEN ParseString(Tail(s), <<>>)
  ELSE IF Head(s) = "[" THEN
         IF lstrip(Tail(s)) # <<>> /\ Head(lstrip(Tail(s))) = "]"
         THEN Parsed(PyList(<<>>), Tail(lstrip(Tail(s))))
         ELSE ParseArrayItems(Tail(s), <<>>)
  ELSE IF Head(s) = "{" THEN
         IF lstrip(Tail(s)) # <<>> /\ Head(lstrip(Tail(s))) = "}"
         THEN Parsed(PyDict(<<>>), Tail(lstrip(Tail(s))))
         ELSE ParseObjectItems(Tail(s), <<>>)
  ELSE IF IsPrefix(<<"n", "u", "l", "l">>, s)
       THEN Parsed(PyNone, DropPrefix(<<"n", "u", "l", "l">>, s))
  ELSE IF IsPrefix(<<"t", "r", "u", "e">>, s)
       THEN Parsed(PyBool(TRUE), DropPrefix(<<"t", "r", "u", "e">>, s))
  ELSE IF IsPrefix(<<"f", "a", "l", "s", "e">>, s)
       THEN Parsed(PyBool(FALSE), DropPrefix(<<"f", "a", "l", "s", "e">>, s))
  ELSE IF IsDigit(Head(s)) THEN ParseNumber(s)
  ELSE ParseError

\* json.loads(text): [ok |-> TRUE, v |-> value], or [ok |-> FALSE] where
\* json.loads raises JSONDecodeError (no value, or text after the value)
JsonLoads(text) ==
  LET r == ParseValue(lstrip(text))
  IN IF r.ok /\ lstrip(r.rest) = <<>> THEN [ok |-> TRUE, v |-> r.v] ELSE ParseError

(***************************************************************************)
(* cache_manager.py: constants                                             *)
(***************************************************************************)
CACHE_EXPIRY_SECONDS == 6 * 30 * 24 * 60 * 60

NOT_FOUND_MARKER == <<"_", "_", "N", "O", "T", "_", "F", "O", "U", "N", "D", "_", "_">>

ALBUM_DETAILS_TYPE ==
  <<"a", "l", "b", "u", "m", "_", "f", "u", "l", "l", "_", "d", "e", "t", "a", "i", "l", "s">>

SEARCH_ALBUM_TYPE == <<"s", "e", "a", "r", "c", "h", "_", "a", "l", "b", "u", "m">>

SEARCH_SONG_TYPE == <<"s", "e", "a", "r", "c", "h", "_", "s", "o", "n", "g">>

ALBUM_ID_KEY == <<"a", "l", "b", "u", "m", "_", "i", "d">>

(***************************************************************************)
(* cache_manager.py: _generate_query_hash                                  *)
(***************************************************************************)
\* hashlib.sha256(...).hexdigest(): collision resistant, so the digest stands
\* for the text that was hashed and for nothing else
sha256(text) == <<"sha256", text>>

\* the normalised value of one parameter (lines 76-81); the resolvers pass
\* strings and None, the final branch covers every other scalar
NormValue(v) ==
  IF v.t = "str" THEN strip(lower(v.s))
  ELSE IF v.t = "none" THEN <<"n", "o", "n", "e">>
  ELSE strip(lower(py_str(v)))

\* the branch of _generate_query_hash for query types other than album details:
\* sorted(params_dict.items()) orders the items by their raw keys, then every
\* key and value is normalised and the items are joined with '|'
GenericHashInput(query_type, params_dict) ==
  LET sorted_keys == SortedStrs(DOMAIN params_dict)
      normalized_params ==
        [i \in 1..Len(sorted_keys) |->
           strip(lower(sorted_keys[i])) \o <<":">> \o NormValue(params_dict[sorted_keys[i]])]
  IN strip(lower(query_type)) \o <<"|">> \o Join(<<"|">>, normalized_params)

\* a variant that normalises the album_id as the generic branch normalises values
AlbumDetailsHashInput_normalised(query_type, params_dict) ==
  strip(lower(query_type)) \o <<"|">> \o ALBUM_ID_KEY \o <<":">>
    \o NormValue(params_dict[ALBUM_ID_KEY])

\* the branch for the album details type: the album_id alone, as it is
AlbumDetailsHashInput(query_type, params_dict) ==
  strip(lower(query_type)) \o <<"|">> \o ALBUM_ID_KEY \o <<":">>
    \o py_str(params_dict[ALBUM_ID_KEY])

HashInput(query_type, params_dict) ==
  IF query_type = ALBUM_DETAILS_TYPE /\ ALBUM_ID_KEY \in DOMAIN params_dict
  THEN AlbumDetailsHashInput(query_type, params_dict)
  ELSE GenericHashInput(query_type, params_dict)

_generate_query_hash(query_type, params_dict) == sha256(HashInput(query_type, params_dict))

(***************************************************************************)
(* State                                                                   *)
(***************************************************************************)
VARIABLES
  hq1, hq2,   \* two queries [query_type, params_dict] handed to _generate_query_hash
  hd1, hd2,   \* their digests, <<>> before the function has been applied
  api_cache,  \* the rows of table api_cache in DB_FILE
  now,        \* int(time.time())
  last,       \* the latest call of the cache interface and what it returned
  written,    \* history: per digest, the latest update_cache call
  nticks,     \* history: the number of clock steps
  nwrites,    \* history: the number of update_cache calls
  processed_track_ids_this_run,  \* main: the track ids added in this run
  cold,       \* history: per entry, its latest resolution from the remote service
  nentries,   \* history: the number of entries processed or resolutions made
  clock,      \* time.time() in milliseconds
  last_call,  \* rate_limiter.last_call in milliseconds
  attempt,    \* call_with_retry: the loop variable
  pc,         \* call_with_retry: "idle" outside it, "loop" inside
  outbound,   \* history: the outbound calls of the wrapper and how it ended
  ncalls,     \* history: the number of outbound calls made
  race,       \* two processes of the tool working on one store
  main,       \* main's music file, its place in it and its batch of track ids
  paging      \* the paging loop of get_album_track_details

hashVars == <<hq1, hq2, hd1, hd2>>

NoDigest == <<>>

cacheVars == <<api_cache, now, last, written, nticks, nwrites>>

runVars == <<processed_track_ids_this_run, cold, nentries>>

retryVars == <<clock, last_call, attempt, pc, outbound, ncalls>>

raceVars == <<race, main, paging>>

\* no second process
NoRace == [procs |-> <<>>, lock |-> 0, order |-> <<>>]

\* main is not in its loop
NoMain ==
  [ entries |-> <<>>, i |-> 0, track_ids_to_add_batch |-> <<>>, returned |-> <<>>,
    playlist_add_items |-> <<>>, ended |-> FALSE ]

\* get_album_track_details is not in its paging loop
NoPaging == [pc |-> "idle", tracks |-> 0, offset |-> 0, offsets |-> <<>>, all_track_ids |-> <<>>]

RaceIdle == race = NoRace /\ main = NoMain /\ paging = NoPaging

vars ==
  << hq1, hq2, hd1, hd2, api_cache, now, last, written, nticks, nwrites,
     processed_track_ids_this_run, cold, nentries,
     clock, last_call, attempt, pc, outbound, ncalls, race, main, paging >>

\* milliseconds in a second
Millis == 1000

\* no outbound call yet
Never == -1

\* the wrapper before its first call: RateLimiter.__init__ (lines 45-47) has
\* set last_call to 0, and the clock is far from the epoch
RetryIdle ==
  /\ clock = Millis
  /\ last_call = 0
  /\ attempt = 0
  /\ pc = "idle"
  /\ outbound = [ start |-> Never, end |-> Never, prev_end |-> Never,
                  outcomes |-> <<>>, slept |-> 0, ret |-> "none" ]
  /\ ncalls = 0

(***************************************************************************)
(* The queries and the values of the cache specification                   *)
(***************************************************************************)
KidA == <<"K", "i", "d", " ", "A">>

Radiohead == <<"R", "a", "d", "i", "o", "h", "e", "a", "d">>

AlbumNameKey == <<"a", "l", "b", "u", "m", "_", "n", "a", "m", "e">>

ArtistNameKey == <<"a", "r", "t", "i", "s", "t", "_", "n", "a", "m", "e">>

SongNameKey == <<"s", "o", "n", "g", "_", "n", "a", "m", "e">>

IdKey == <<"i", "d">>

NameKey == <<"n", "a", "m", "e">>

AlbumKey == <<"a", "l", "b", "u", "m">>

PopularityKey == <<"p", "o", "p", "u", "l", "a", "r", "i", "t", "y">>

FuzzyMatchedKey == <<"f", "u", "z", "z", "y", "_", "m", "a", "t", "c", "h", "e", "d">>

\* the params of search_album (line 195), of search_song (line 241) and of
\* get_album_track_details (line 343)
AlbumParams(album_name, artist_name) ==
  (AlbumNameKey :> album_name) @@ (ArtistNameKey :> artist_name)

SongParams(song_name, album_name, artist_name) ==
  (SongNameKey :> song_name) @@ (AlbumNameKey :> album_name) @@ (ArtistNameKey :> artist_name)

DetailsParams(album_id) == (ALBUM_ID_KEY :> album_id)

Query(query_type, params_dict) == [query_type |-> query_type, params_dict |-> params_dict]

\* album identifiers: one that is no JSON text, one that reads as a JSON
\* integer, one that reads as a JSON number with an exponent
IdX1 == <<"X", "1">>

Id12 == <<"1", "2">>

Id1e5 == <<"1", "e", "5">>

\* a TrackDetail as get_album_track_details builds it (lines 377-381)
TrackDetail(id, name, popularity) ==
  PyDict((IdKey :> PyStr(id)) @@ (PopularityKey :> PyInt(popularity)) @@ (NameKey :> PyStr(name)))

\* the track_info of search_song (lines 327-332)
TrackInfo(id, name, album, fuzzy_matched) ==
  PyDict((IdKey :> PyStr(id)) @@ (NameKey :> PyStr(name)) @@ (AlbumKey :> PyStr(album))
           @@ (FuzzyMatchedKey :> PyBool(fuzzy_matched)))

T1 == TrackDetail(<<"t", "1">>, <<"E", "v", "e", "r", "y">>, 70)

T2 == TrackDetail(<<"t", "2">>, <<"A", "n", "t", "h", "e", "m">>, 85)

CacheQueries ==
  { Query(SEARCH_ALBUM_TYPE, AlbumParams(PyStr(KidA), PyStr(Radiohead))),
    Query(ALBUM_DETAILS_TYPE, DetailsParams(PyStr(IdX1))) }

StructuredValues ==
  { PyList(<<>>),
    PyList(<<T1, T2>>),
    TrackInfo(<<"s", "1">>, <<"a", "\"", "b", "\\">>, KidA, FALSE) }

CacheValues == {PyNone, PyStr(NOT_FOUND_MARKER), PyStr(Id12)} \cup StructuredValues

(***************************************************************************)
(* The entries and the remote service of the run specification             *)
(*                                                                         *)
(* The remote service sp is a record of the responses it gives to the      *)
(* calls of one resolution; a response is the result of call_with_retry:   *)
(* the items returned, or an error raised after the retries.               *)
(***************************************************************************)
Response(raised, items) == [raised |-> raised, items |-> items]

\* an album and a track as the remote search returns them
RemoteAlbum(id, artists) == [id |-> id, artists |-> artists]

RemoteTrack(id, name, album, artists) ==
  [id |-> id, name |-> name, album |-> album, artists |-> artists]

Idioteque == <<"I", "d", "i", "o", "t", "e", "q", "u", "e">>

AlbumEntry == [input_type |-> "album", name |-> KidA, album |-> PyNone, artist |-> Radiohead]

SongEntry == [input_type |-> "song", name |-> Idioteque, album |-> KidA, artist |-> Radiohead]

Entries == {AlbumEntry, SongEntry}

\* the tracks of the album as the remote service lists them
RemoteT1 == [id |-> <<"t", "1">>, name |-> <<"E", "v", "e", "r", "y">>, popularity |-> 70]

RemoteT2 == [id |-> <<"t", "2">>, name |-> <<"A", "n", "t", "h", "e", "m">>, popularity |-> 85]

Listing(tracks_raised, details_raised, tracks) ==
  [tracks_raised |-> tracks_raised, details_raised |-> details_raised, tracks |-> tracks]

NoItems == Response(FALSE, <<>>)

Raised == Response(TRUE, <<>>)

NoListing == Listing(FALSE, FALSE, <<>>)

\* the responses to the searches for AlbumEntry and to its track listing
AlbumRemotes ==
  [ album_exact : {NoItems} \cup
                    {Response(FALSE, <<RemoteAlbum(id, <<Radiohead>>)>>) : id \in {IdX1, Id12, Id1e5}},
    album_fuzzy : {NoItems,
                   Response(FALSE, << RemoteAlbum(<<"Y", "1">>, <<KidA>>),
                                      RemoteAlbum(IdX1, <<<<"R", "a", "d", "i", "o", "h", "e", "d">>>>) >>)},
    listing : {Listing(TRUE, FALSE, <<>>), Listing(FALSE, FALSE, <<RemoteT1, RemoteT2>>)},
    track_exact : {NoItems}, track_field : {NoItems}, track_general : {NoItems} ]

RemoteSong == RemoteTrack(<<"s", "1">>, Idioteque, KidA, <<Radiohead>>)

\* the responses to the searches for SongEntry
SongRemotes ==
  [ album_exact : {NoItems}, album_fuzzy : {NoItems}, listing : {NoListing},
    track_exact : {Raised, Response(FALSE, <<RemoteSong>>)},
    track_field : {NoItems},
    track_general : {NoItems, Response(FALSE, <<RemoteSong>>)} ]

RemotesFor(entry) == IF entry.input_type = "album" THEN AlbumRemotes ELSE SongRemotes

(***************************************************************************)
(* The names and the remote service of the stage specification: names      *)
(* with three search variants each, and a remote service that answers one  *)
(* query of a stage in its own way.                                        *)
(***************************************************************************)
\* variants "Aa [Bb]", "Bb", "Aa"
Bracketed == <<"A", "a", " ", "[", "B", "b", "]">>

\* variants "Rr (Ss)", "Ss", "Rr"
Parenthesised == <<"R", "r", " ", "(", "S", "s", ")">>

Stranger == <<"Q", "q">>

\* the queries the stage specification caches
StageQueries ==
  { Query(SEARCH_ALBUM_TYPE, AlbumParams(PyStr(Bracketed), PyStr(Parenthesised))),
    Query(SEARCH_SONG_TYPE, SongParams(PyStr(Idioteque), PyStr(Bracketed), PyStr(Parenthesised))),
    Query(SEARCH_SONG_TYPE, SongParams(PyStr(Idioteque), PyNone, PyStr(Parenthesised))) }

\* a search as sp.search receives it: the text q, what is searched and the
\* limit (lines 209, 222, 268, 279 and 299)
SearchQuery(q, type, limit) == [q |-> q, type |-> type, limit |-> limit]

\* field:"value"
Field(field, value) == field \o <<":", "\"">> \o value \o <<"\"">>

\* the query of stage 1 of search_album (line 209)
AlbumQuery(album_v, artist_v) ==
  SearchQuery(Field(<<"a", "l", "b", "u", "m">>, album_v) \o <<" ">>
                \o Field(<<"a", "r", "t", "i", "s", "t">>, artist_v), "album", 1)

\* the query of stage 2 of search_album (line 222)
FuzzyAlbumQuery(album_v) == SearchQuery(Field(<<"a", "l", "b", "u", "m">>, album_v), "album", 5)

\* a response that answers one query with results and every other query
\* with otherwise
Answering(query, results, otherwise) ==
  [answers |-> (query :> results), otherwise |-> otherwise]

\* the album the searches for an album look for, and another artist's
StageAlbum == RemoteAlbum(IdX1, <<<<"S", "s">>>>)

OtherAlbum == RemoteAlbum(<<"Y", "1">>, <<Stranger>>)

\* the track the searches for a song look for, and another
\* artist's track of another album
StageTrack == RemoteTrack(<<"s", "1">>, Idioteque, Bracketed, <<Parenthesised>>)

OtherTrack == RemoteTrack(<<"s", "2">>, Idioteque, Stranger, <<Stranger>>)

\* tracks at the thresholds of stage 3: a name of similarity 5/7 to
\* "idioteque", a name of similarity 0.8 with an album of similarity 0.7 to
\* "aa [bb]", and the same name with an album of similarity 0.75
Idiote == <<"I", "d", "i", "o", "t", "e">>

FarTrack == RemoteTrack(<<"s", "3">>, <<"I", "d", "i", "o", "t">>, Bracketed, <<Parenthesised>>)

LowAlbumTrack == RemoteTrack(<<"s", "4">>, Idiote, Bracketed \o <<"x", "x", "x", "x", "x", "x">>, <<Stranger, Parenthesised>>)

EdgeTrack == RemoteTrack(<<"s", "5">>, Idiote, <<"A", "a", " ", "[", "B", "b", "x", "x", "x">>, <<Parenthesised>>)

EdgeTracks == {FarTrack, LowAlbumTrack, EdgeTrack}

\* the pairs of stage 1 and the album variants of stage 2 that the remote
\* service answers in their own way, as <<album_v, artist_v>> and album_v
AnsweredPairs ==
  { <<Bracketed, Parenthesised>>, <<Bracketed, <<"S", "s">>>>, <<<<"B", "b">>, Parenthesised>> }

AnsweredAlbums == {Bracketed, <<"B", "b">>}

\* the responses to the searches for the album Bracketed of Parenthesised
StageAlbumRemotes ==
  [ album_exact : {NoItems, Raised} \cup
                    { Answering(AlbumQuery(pair[1], pair[2]), Response(FALSE, <<album>>),
                                otherwise) :
                      pair \in AnsweredPairs, album \in {StageAlbum, OtherAlbum},
                      otherwise \in {NoItems, Raised} },
    album_fuzzy : {NoItems, Raised} \cup
                    { Answering(FuzzyAlbumQuery(album_v),
                                Response(FALSE, <<OtherAlbum, StageAlbum>>), otherwise) :
                      album_v \in AnsweredAlbums, otherwise \in {NoItems, Raised} },
    listing : {NoListing},
    track_exact : {NoItems}, track_field : {NoItems}, track_general : {NoItems} ]

\* the responses to the searches for the song Idioteque of Parenthesised
StageSongRemotes ==
  [ album_exact : {NoItems}, album_fuzzy : {NoItems}, listing : {NoListing},
    track_exact : {NoItems, Raised, Response(FALSE, <<OtherTrack>>)},
    track_field : {NoItems, Raised, Response(FALSE, <<OtherTrack>>),
                   Response(FALSE, <<OtherTrack, StageTrack>>)},
    track_general : {NoItems, Raised, Response(FALSE, <<OtherTrack, StageTrack>>),
                     Response(FALSE, <<FarTrack, LowAlbumTrack, EdgeTrack>>)} ]


\* the names of the entries and of the remote service's items
(***************************************************************************)
(* The albums of the listing specification: up to three tracks, t1 to t3   *)
(* in catalogue order, with every choice of two popularities, and the      *)
(* failures of the two kinds of remote call.                               *)
(***************************************************************************)
Popularities == {50, 70}

ListedTrack(n, popularity) ==
  [id |-> <<"t", n>>, name |-> <<"N", n>>, popularity |-> popularity]

Catalogues ==
  {<<>>}
    \cup {<<ListedTrack("1", p1), ListedTrack("2", p2)>> : p1, p2 \in Popularities}
    \cup { <<ListedTrack("1", p1), ListedTrack("2", p2), ListedTrack("3", p3)>> :
           p1, p2, p3 \in Popularities }

\* sp.album_tracks raises, or sp.tracks does
FailingListings ==
  { Listing(TRUE, FALSE, <<>>),
    Listing(FALSE, TRUE, <<ListedTrack("1", 70), ListedTrack("2", 50)>>) }

ListingRemotes ==
  [ album_exact : {NoItems}, album_fuzzy : {NoItems},
    listing : {Listing(FALSE, FALSE, tracks) : tracks \in Catalogues} \cup FailingListings,
    track_exact : {NoItems}, track_field : {NoItems}, track_general : {NoItems} ]

KnownNames ==
  UNION { {e.name, e.artist} \cup (IF e.album = PyNone THEN {} ELSE {e.album}) :
          e \in Entries }
    \cup {Bracketed, Parenthesised, Stranger, <<"S", "s">>}
    \cup {t.name : t \in EdgeTracks} \cup {t.album : t \in EdgeTracks}
    \cup UNION { {a.artists[i] : i \in 1..Len(a.artists)} :
                 a \in UNION { {sp.album_exact.items[i] : i \in 1..Len(sp.album_exact.items)}
                                 \cup {sp.album_fuzzy.items[i] : i \in 1..Len(sp.album_fuzzy.items)} :
                               sp \in AlbumRemotes } }
    \cup {RemoteSong.name, RemoteSong.album} \cup {RemoteSong.artists[i] : i \in 1..Len(RemoteSong.artists)}

\* the album identifiers of the remote service
RemoteIds ==
  UNION { {sp.album_exact.items[i].id : i \in 1..Len(sp.album_exact.items)}
            \cup {sp.album_fuzzy.items[i].id : i \in 1..Len(sp.album_fuzzy.items)} :
          sp \in AlbumRemotes }

(***************************************************************************)
(* cache_manager.py: the store                                             *)
(***************************************************************************)
\* a function as a table of its values
Computed(f) == f @@ <<>>

\* the value a table holds for x, the value computed at the call otherwise
Lookup(computed, x, value) == IF x \in DOMAIN computed THEN computed[x] ELSE value

\* DB_FILE as clear_cache and initialize_cache see it: there or not, with the
\* rows of its table
DbFile(rows) == [exists |-> TRUE, rows |-> rows]

\* clear_cache(): os.remove deletes the file, or raises OSError (removed =
\* FALSE), which is printed and leaves the file as it is
clear_cache(db, removed) ==
  IF db.exists /\ removed THEN [exists |-> FALSE, rows |-> {}] ELSE db

\* initialize_cache(): CREATE TABLE IF NOT EXISTS
initialize_cache(db) == [exists |-> TRUE, rows |-> db.rows]

\* update_cache taking every falsy result for "not found"
ResultStr_falsy(query_type, result) ==
  IF result \in {PyNone, PyStr(NOT_FOUND_MARKER), PyList(<<>>), PyStr(<<>>)}
  THEN NOT_FOUND_MARKER
  ELSE IF result.t \in {"list", "dict"} THEN JsonDumps(result)
  ELSE py_str(result)

\* the text update_cache stores for a result (lines 137-149)
ResultStr(query_type, result) ==
  IF result = PyNone \/ result = PyStr(NOT_FOUND_MARKER)
  THEN IF query_type = ALBUM_DETAILS_TYPE /\ result = PyStr(NOT_FOUND_MARKER)
       THEN <<"[", "]">>
       ELSE NOT_FOUND_MARKER
  ELSE IF result.t \in {"list", "dict"} THEN JsonDumps(result)
  ELSE py_str(result)

\* check_cache returning the marker for every query type
DecodeResult_untyped(query_type, cached_result_str) ==
  IF cached_result_str = NOT_FOUND_MARKER
  THEN PyStr(NOT_FOUND_MARKER)
  ELSE LET decoded == JsonLoads(cached_result_str)
       IN IF decoded.ok THEN decoded.v ELSE PyStr(cached_result_str)

\* what check_cache returns for a stored text (lines 108-116)
DecodeResult(query_type, cached_result_str) ==
  IF cached_result_str = NOT_FOUND_MARKER
  THEN IF query_type # ALBUM_DETAILS_TYPE THEN PyStr(NOT_FOUND_MARKER) ELSE PyList(<<>>)
  ELSE LET decoded == JsonLoads(cached_result_str)
       IN IF decoded.ok THEN decoded.v ELSE PyStr(cached_result_str)

\* the identifiers get_album_track_details is called with: those of the
\* remote service, and what check_cache returns for them
ResolvedIds ==
  {PyStr(id) : id \in RemoteIds}
    \cup {DecodeResult(SEARCH_ALBUM_TYPE, ResultStr(SEARCH_ALBUM_TYPE, PyStr(id))) : id \in RemoteIds}

\* the queries and the values of the resolvers
RunQueries ==
  {Query(SEARCH_ALBUM_TYPE, AlbumParams(PyStr(e.name), PyStr(e.artist))) : e \in Entries}
    \cup {Query(SEARCH_SONG_TYPE,
                SongParams(PyStr(e.name), IF e.album = PyNone THEN PyNone ELSE PyStr(e.album),
                           PyStr(e.artist))) : e \in Entries}
    \cup StageQueries
    \cup {Query(ALBUM_DETAILS_TYPE, DetailsParams(album_id)) : album_id \in ResolvedIds}

RunValues ==
  {PyStr(NOT_FOUND_MARKER)} \cup {PyStr(id) : id \in RemoteIds}
    \cup { PyList([i \in 1..Len(sp.listing.tracks) |->
                     TrackDetail(sp.listing.tracks[i].id, sp.listing.tracks[i].name,
                                 sp.listing.tracks[i].popularity)]) : sp \in AlbumRemotes }
    \cup {TrackInfo(RemoteSong.id, RemoteSong.name, RemoteSong.album, b) : b \in BOOLEAN}
    \cup {PyStr(OtherAlbum.id)}
    \cup { PyList([i \in 1..Len(tracks) |->
                     TrackDetail(tracks[i].id, tracks[i].name, tracks[i].popularity)]) :
           tracks \in Catalogues }
    \cup {TrackInfo(t.id, t.name, t.album, b) : t \in {StageTrack, OtherTrack} \cup EdgeTracks, b \in BOOLEAN}

\* The digests and the texts of the specifications' queries and values,
\* computed once; any other argument is computed at the call.
QueryHashes ==
  Computed([q \in CacheQueries \cup RunQueries |-> _generate_query_hash(q.query_type, q.params_dict)])

ResultStrs ==
  Computed([x \in {q.query_type : q \in CacheQueries \cup RunQueries} \X (CacheValues \cup RunValues) |->
       ResultStr(x[1], x[2])])

DecodedResults ==
  Computed([x \in {<<y[1], ResultStrs[y]>> : y \in DOMAIN ResultStrs} |-> DecodeResult(x[1], x[2])])

QueryHashOf(query_type, params_dict) ==
  Lookup(QueryHashes, Query(query_type, params_dict),
         _generate_query_hash(query_type, params_dict))

ResultStrOf(query_type, result) ==
  Lookup(ResultStrs, <<query_type, result>>, ResultStr(query_type, result))

DecodeResultOf(query_type, cached_result_str) ==
  Lookup(DecodedResults, <<query_type, cached_result_str>>,
         DecodeResult(query_type, cached_result_str))

\* INSERT OR REPLACE on the primary key query_hash
InsertOrReplace(table, row) == {r \in table : r.query_hash # row.query_hash} \cup {row}

\* the row update_cache writes at time current_time; the column query_params,
\* a copy of the parameters that no code reads, is left out
CacheRow(query_type, params_dict, result, current_time) ==
  [ query_hash |-> QueryHashOf(query_type, params_dict),
    query_type |-> query_type,
    result |-> ResultStrOf(query_type, result),
    timestamp |-> current_time ]

\* an entry still fresh at the age of the expiry window
Fresh_inclusive(timestamp, current_time) == current_time - timestamp <= CACHE_EXPIRY_SECONDS

\* an entry is fresh while its age is below the expiry window (lines 103-106)
Fresh(timestamp, current_time) == current_time - timestamp < CACHE_EXPIRY_SECONDS

\* what check_cache returns for the rows its SELECT finds (lines 98-121)
Selected(rows, current_time, query_type) ==
  IF rows = {} THEN PyNone
  ELSE LET row == CHOOSE r \in rows : TRUE
       IN IF Fresh(row.timestamp, current_time)
          THEN DecodeResultOf(query_type, row.result)
          ELSE PyNone

\* the rows of the table with a digest (lines 94-97)
Select(table, query_hash) == {r \in table : r.query_hash = query_hash}

\* check_cache reading the table although the storage fails
check_cache_unguarded(table, current_time, query_type, params_dict, fault) ==
  Selected(Select(table, QueryHashOf(query_type, params_dict)), current_time, query_type)

\* the value check_cache returns on the table at time current_time; PyNone is a
\* miss; fault: a statement raises sqlite3.Error, which is caught (lines 122-124)
check_cache(table, current_time, query_type, params_dict, fault) ==
  IF fault THEN PyNone
  ELSE Selected(Select(table, QueryHashOf(query_type, params_dict)), current_time, query_type)

\* update_cache with INSERT in place of INSERT OR REPLACE: a row with the
\* digest stays as it is, the IntegrityError is caught
update_cache_insert(table, current_time, query_type, params_dict, result, fault) ==
  IF fault \/ Select(table, QueryHashOf(query_type, params_dict)) # {} THEN table
  ELSE table \cup {CacheRow(query_type, params_dict, result, current_time)}

\* the table after update_cache at time current_time; fault: a statement raises
\* sqlite3.Error, which is caught and printed (lines 163-164)
update_cache(table, current_time, query_type, params_dict, result, fault) ==
  IF fault THEN table
  ELSE InsertOrReplace(table, CacheRow(query_type, params_dict, result, current_time))

(***************************************************************************)
(* The cache specification: a working store, called from outside           *)
(***************************************************************************)
MaxTicks == 2

MaxWrites == 2

TickSteps == {1, CACHE_EXPIRY_SECONDS - 1}

NoCall == [op |-> "none"]

\* the cache after main's first initialize_cache(): the table, without rows
CacheIdle ==
  /\ api_cache = {}
  /\ now = 0
  /\ last = NoCall
  /\ written = <<>>
  /\ nticks = 0
  /\ nwrites = 0

\* no entry has been processed
RunIdle ==
  /\ processed_track_ids_this_run = {}
  /\ cold = <<>>
  /\ nentries = 0

Digest(q) == QueryHashOf(q.query_type, q.params_dict)

\* main, lines 630-638: a run starts; with --clear-cache (clear) clear_cache()
\* runs, then initialize_cache().  When initialize_cache raises, main exits
\* before any cache call, so a run that goes on has the table.  The run's
\* set of processed track ids starts empty (line 655).
StartRun(clear, removed) ==
  /\ api_cache' = initialize_cache(IF clear THEN clear_cache(DbFile(api_cache), removed)
                                   ELSE DbFile(api_cache)).rows
  /\ last' = [op |-> "main", clear |-> clear]
  /\ written' = IF clear THEN <<>> ELSE written
  /\ processed_track_ids_this_run' = {}
  /\ cold' = IF clear THEN <<>> ELSE [e \in DOMAIN cold |-> [cold[e] EXCEPT !.same_run = FALSE]]
  /\ UNCHANGED <<now, nticks, nwrites, nentries>>
  /\ UNCHANGED <<raceVars, hashVars, retryVars>>

\* update_cache(query_type, params_dict, result) is called
UpdateCache(q, result) ==
  /\ nwrites < MaxWrites
  /\ nwrites' = nwrites + 1
  /\ api_cache' = update_cache(api_cache, now, q.query_type, q.params_dict, result, FALSE)
  /\ written' = (Digest(q) :> [result |-> result, time |-> now]) @@ written
  /\ last' = [op |-> "update_cache"]
  /\ UNCHANGED <<now, nticks>>
  /\ UNCHANGED <<raceVars, hashVars, runVars, retryVars>>

\* check_cache(query_type, params_dict) is called
CheckCache(q) ==
  /\ last' = [ op |-> "check_cache", query |-> q,
               ret |-> check_cache(api_cache, now, q.query_type, q.params_dict, FALSE) ]
  /\ UNCHANGED <<api_cache, now, written, nticks, nwrites>>
  /\ UNCHANGED <<raceVars, hashVars, runVars, retryVars>>

\* time passes
Tick(d) ==
  /\ nticks < MaxTicks
  /\ nticks' = nticks + 1
  /\ now' = now + d
  /\ last' = NoCall
  /\ UNCHANGED <<api_cache, written, nwrites>>
  /\ UNCHANGED <<raceVars, hashVars, runVars, retryVars>>

HashIdle ==
  /\ hq1 = NoDigest
  /\ hq2 = NoDigest
  /\ hd1 = NoDigest
  /\ hd2 = NoDigest

Init == CacheIdle /\ RunIdle /\ HashIdle /\ RetryIdle /\ RaceIdle

Next ==
  \/ \E clear, removed \in BOOLEAN : StartRun(clear, removed)
  \/ \E q \in CacheQueries, result \in CacheValues : UpdateCache(q, result)
  \/ \E q \in CacheQueries : CheckCache(q)
  \/ \E d \in TickSteps : Tick(d)

Spec == Init /\ [][Next]_vars

(***************************************************************************)
(* Properties of the cache specification                                   *)
(***************************************************************************)
\* check_cache has just returned for a key that update_cache wrote, with no
\* clear_cache since the write
CheckedAfterWrite == last.op = "check_cache" /\ Digest(last.query) \in DOMAIN written

\* the latest update_cache call for the key of the last check_cache
LastWrite == written[Digest(last.query)]

WithinWindow(w) == now <= w.time + CACHE_EXPIRY_SECONDS - 1

\* C2: update_cache of a structured value (a list or a map), then check_cache
\* with the same type and parameters within the expiry window and with no
\* write to that key in between, returns a value equal to the one written.
C2_RoundTrip ==
  (CheckedAfterWrite /\ LastWrite.result.t \in {"list", "dict"} /\ WithinWindow(LastWrite))
    => last.ret = LastWrite.result

C2_Witness ==
  /\ CheckedAfterWrite
  /\ LastWrite.result = PyList(<<>>)
  /\ last.query.query_type = SEARCH_ALBUM_TYPE
  /\ now > LastWrite.time
  /\ last.ret = PyList(<<>>)

\* C5: an entry written at time T is a hit at every time up to and including
\* T + CACHE_EXPIRY_SECONDS - 1 and a miss (None) at T + CACHE_EXPIRY_SECONDS and
\* at every later time, until it is rewritten.
C5_ExpiryBoundary ==
  CheckedAfterWrite =>
    /\ now <= LastWrite.time + CACHE_EXPIRY_SECONDS - 1 => last.ret # PyNone
    /\ now >= LastWrite.time + CACHE_EXPIRY_SECONDS => last.ret = PyNone

C5_Witness ==
  /\ CheckedAfterWrite
  /\ now = LastWrite.time + CACHE_EXPIRY_SECONDS
  /\ last.ret = PyNone

\* C6: update_cache with the not-found marker or with None, then check_cache
\* within the expiry window, returns the empty list for the album track-listing
\* type and the not-found marker for every other type, never None.
C6_NotFoundRoundTrip ==
  ( /\ CheckedAfterWrite
    /\ LastWrite.result \in {PyNone, PyStr(NOT_FOUND_MARKER)}
    /\ WithinWindow(LastWrite) )
    => last.ret = IF last.query.query_type = ALBUM_DETAILS_TYPE
                  THEN PyList(<<>>)
                  ELSE PyStr(NOT_FOUND_MARKER)

C6_Witness ==
  /\ CheckedAfterWrite
  /\ LastWrite.result = PyNone
  /\ last.query.query_type = ALBUM_DETAILS_TYPE
  /\ WithinWindow(LastWrite)
  /\ last.ret = PyList(<<>>)

\* the value a written result stands for: the typed absent value for None and
\* for the marker, the result itself otherwise
ValueWritten(query_type, result) ==
  IF result \in {PyNone, PyStr(NOT_FOUND_MARKER)}
  THEN IF query_type = ALBUM_DETAILS_TYPE THEN PyList(<<>>) ELSE PyStr(NOT_FOUND_MARKER)
  ELSE result

\* C7: after any sequence of update_cache calls the store holds at most one
\* entry per digest, and check_cache for a key within the expiry window of the
\* latest write returns the value of the most recent update_cache for that key,
\* the entry's timestamp being the time of that write.
C7_LastWriterWins ==
  /\ \A r1, r2 \in api_cache : r1.query_hash = r2.query_hash => r1 = r2
  /\ (CheckedAfterWrite /\ WithinWindow(LastWrite)) =>
       /\ last.ret = ValueWritten(last.query.query_type, LastWrite.result)
       /\ \A r \in api_cache :
            r.query_hash = Digest(last.query) => r.timestamp = LastWrite.time

\* C10: after clear_cache returns the store holds no entry: check_cache is a
\* miss for every key written before the clear, until it is written again.
C10_ClearedStoreIsEmpty ==
  (last.op = "main" /\ last.clear) =>
    /\ api_cache = {}
    /\ \A q \in CacheQueries :
         check_cache(api_cache, now, q.query_type, q.params_dict, FALSE) = PyNone

(***************************************************************************)
(* The inputs of the hash specification                                    *)
(***************************************************************************)
MaxHashParams == 2

HashTypes == {SEARCH_ALBUM_TYPE, ALBUM_DETAILS_TYPE}

HashKeys == {<<"A">>, <<"a">>, <<"B">>, ALBUM_ID_KEY}

HashValues ==
  { PyStr(<<"F", "o", "o">>), PyStr(<<" ", "f", "o", "o", " ">>),
    PyStr(<<"F", "o", "o", "|", "b", ":", "F", "o", "o">>) }

HashParams ==
  UNION {[K -> HashValues] : K \in {S \in SUBSET HashKeys : Cardinality(S) <= MaxHashParams}}

HashQueries == [query_type : HashTypes, params_dict : HashParams]

HashInit ==
  /\ hq1 \in HashQueries
  /\ hq2 \in HashQueries
  /\ hd1 = NoDigest
  /\ hd2 = NoDigest
  /\ CacheIdle
  /\ RunIdle
  /\ RetryIdle
  /\ RaceIdle

\* both queries are hashed
HashBoth ==
  /\ hd1 = NoDigest
  /\ hd1' = _generate_query_hash(hq1.query_type, hq1.params_dict)
  /\ hd2' = _generate_query_hash(hq2.query_type, hq2.params_dict)
  /\ UNCHANGED <<hq1, hq2>>
  /\ UNCHANGED <<raceVars, cacheVars, runVars, retryVars>>

HashNext == HashBoth

SpecHash == HashInit /\ [][HashNext]_vars

Hashed == hd1 # NoDigest

\* the parameters as the generic branch normalises them: a set of (key, value)
NormalizedParams(params_dict) ==
  {<<strip(lower(k)), NormValue(params_dict[k])>> : k \in DOMAIN params_dict}

\* no two keys of the map become the same key when normalised
KeysStayDistinct(params_dict) ==
  \A k1, k2 \in DOMAIN params_dict : strip(lower(k1)) = strip(lower(k2)) => k1 = k2

\* the two maps differ at most in the letter case and the leading and trailing
\* whitespace of their keys and string values
DifferOnlyInCaseAndSpace(p1, p2) ==
  /\ KeysStayDistinct(p1)
  /\ KeysStayDistinct(p2)
  /\ NormalizedParams(p1) = NormalizedParams(p2)

\* C3: for a query type other than the album details type, two parameter maps
\* that differ only in the case and the surrounding whitespace of their keys and
\* string values have the same digest, whatever the number of keys.
C3_NormalizationInvariance ==
  ( /\ Hashed
    /\ hq1.query_type = hq2.query_type
    /\ hq1.query_type # ALBUM_DETAILS_TYPE
    /\ DifferOnlyInCaseAndSpace(hq1.params_dict, hq2.params_dict) )
  => hd1 = hd2

\* C4: for the album details type, two maps that both carry album_id have the
\* same digest exactly when their album_id strings are equal character for
\* character, whatever their other parameters.
C4_AlbumIdAlone ==
  ( /\ Hashed
    /\ hq1.query_type = ALBUM_DETAILS_TYPE
    /\ hq2.query_type = ALBUM_DETAILS_TYPE
    /\ ALBUM_ID_KEY \in DOMAIN hq1.params_dict
    /\ ALBUM_ID_KEY \in DOMAIN hq2.params_dict )
  => (hd1 = hd2 <=> hq1.params_dict[ALBUM_ID_KEY] = hq2.params_dict[ALBUM_ID_KEY])

\* two album details queries whose ids differ only in case and surrounding
\* whitespace, and whose other parameters differ, have been hashed to two digests
C4_Witness ==
  /\ Hashed
  /\ hq1.query_type = ALBUM_DETAILS_TYPE
  /\ hq2.query_type = ALBUM_DETAILS_TYPE
  /\ ALBUM_ID_KEY \in DOMAIN hq1.params_dict
  /\ ALBUM_ID_KEY \in DOMAIN hq2.params_dict
  /\ DOMAIN hq1.params_dict # DOMAIN hq2.params_dict
  /\ hq1.params_dict[ALBUM_ID_KEY] # hq2.params_dict[ALBUM_ID_KEY]
  /\ NormValue(hq1.params_dict[ALBUM_ID_KEY]) = NormValue(hq2.params_dict[ALBUM_ID_KEY])
  /\ hd1 # hd2

\* C8: two queries of the generic branch whose (query type, normalised
\* parameters) differ are hashed from different canonical strings, so they
\* never share a digest.
C8_DigestDeterminesQuery ==
  ( /\ Hashed
    /\ hq1.query_type # ALBUM_DETAILS_TYPE
    /\ hq2.query_type # ALBUM_DETAILS_TYPE
    /\ KeysStayDistinct(hq1.params_dict)
    /\ KeysStayDistinct(hq2.params_dict)
    /\ <<strip(lower(hq1.query_type)), NormalizedParams(hq1.params_dict)>>
         # <<strip(lower(hq2.query_type)), NormalizedParams(hq2.params_dict)>> )
  => hd1 # hd2

(***************************************************************************)
(* txt-to-spotify.py: names and their variants                             *)
(***************************************************************************)
\* x in y for two strings
Contains(y, x) == \E i \in 1..(Len(y) - Len(x) + 1) : SubSeq(y, i, i + Len(x) - 1) = x

\* the position of the first c in s after position from, 0 when there is none
FirstAfter(s, c, from) ==
  IF \E i \in (from + 1)..Len(s) : s[i] = c
  THEN CHOOSE i \in (from + 1)..Len(s) : s[i] = c /\ \A j \in (from + 1)..(i - 1) : s[j] # c
  ELSE 0

\* re.search(open + '(.*?)' + close, text): the text between the first open
\* and the first close after it, as <<found, group 1>>
SearchPair(text, open, close) ==
  LET o == FirstAfter(text, open, 0)
      c == IF o = 0 THEN 0 ELSE FirstAfter(text, close, o)
  IN IF c = 0 THEN <<FALSE, <<>>>> ELSE <<TRUE, SubSeq(text, o + 1, c - 1)>>

\* extract_western_name (lines 143-149)
extract_western_name(text) ==
  LET bracket_match == SearchPair(text, "[", "]")
      paren_match == SearchPair(text, "(", ")")
  IN IF bracket_match[1] THEN strip(bracket_match[2])
     ELSE IF paren_match[1] THEN strip(paren_match[2])
     ELSE text

\* re.sub(r'\[.*?\]|\(.*?\)', '', name)
RECURSIVE RemovePairs(_)
RemovePairs(name) ==
  IF name = <<>> THEN <<>>
  ELSE IF Head(name) = "[" /\ FirstAfter(name, "]", 1) # 0
  THEN RemovePairs(SubSeq(name, FirstAfter(name, "]", 1) + 1, Len(name)))
  ELSE IF Head(name) = "(" /\ FirstAfter(name, ")", 1) # 0
  THEN RemovePairs(SubSeq(name, FirstAfter(name, ")", 1) + 1, Len(name)))
  ELSE <<Head(name)>> \o RemovePairs(Tail(name))

\* the members of a list
Members(l) == {l[i] : i \in 1..Len(l)}

\* variants without the test for a name already listed
get_search_variants_repeating(name) ==
  IF name = PyNone \/ name = <<>> THEN <<>>
  ELSE <<name, extract_western_name(name), strip(RemovePairs(name))>>

\* get_search_variants (lines 151-159); name is a string, or PyNone
get_search_variants(name) ==
  IF name = PyNone \/ name = <<>> THEN <<>>
  ELSE LET western_name == extract_western_name(name)
           variants == IF western_name # name THEN <<name, western_name>> ELSE <<name>>
           clean_name == strip(RemovePairs(name))
       IN IF clean_name # <<>> /\ clean_name \notin Members(variants)
          THEN Append(variants, clean_name)
          ELSE variants

\* the variants of the specifications' names, computed once
SearchVariants ==
  Computed([name \in KnownNames |-> get_search_variants(name)])

SearchVariantsOf(name) ==
  IF name = PyNone THEN get_search_variants(name)
  ELSE Lookup(SearchVariants, name, get_search_variants(name))

(***************************************************************************)
(* difflib.SequenceMatcher(None, a, b).ratio()                             *)
(***************************************************************************)
\* the length of the longest common run of a[i..ahi] and b[j..bhi] from i, j
RECURSIVE RunLen(_, _, _, _, _, _)
RunLen(a, b, i, j, ahi, bhi) ==
  IF i <= ahi /\ j <= bhi /\ a[i] = b[j] THEN 1 + RunLen(a, b, i + 1, j + 1, ahi, bhi) ELSE 0

\* find_longest_match: the longest block of a[alo..ahi] and b[blo..bhi], the
\* one that starts earliest in a and, of those, earliest in b: <<i, j, size>>
find_longest_match(a, b, alo, ahi, blo, bhi) ==
  LET starts == (alo..ahi) \X (blo..bhi)
      size(x) == RunLen(a, b, x[1], x[2], ahi, bhi)
      best == CHOOSE x \in starts :
                \A y \in starts :
                  \/ size(y) < size(x)
                  \/ /\ size(y) = size(x)
                     /\ \/ x[1] < y[1]
                        \/ x[1] = y[1] /\ x[2] <= y[2]
  IN IF starts = {} THEN <<alo, blo, 0>> ELSE <<best[1], best[2], size(best)>>

\* the sum of the sizes of get_matching_blocks
RECURSIVE MatchingSize(_, _, _, _, _, _)
MatchingSize(a, b, alo, ahi, blo, bhi) ==
  LET m == find_longest_match(a, b, alo, ahi, blo, bhi)
  IN IF m[3] = 0 THEN 0
     ELSE m[3] + MatchingSize(a, b, alo, m[1] - 1, blo, m[2] - 1)
               + MatchingSize(a, b, m[1] + m[3], ahi, m[2] + m[3], bhi)

\* ratio() as the fraction <<2 * matches, len(a) + len(b)>>; 1.0 for two
\* empty strings
ratio(a, b) ==
  IF Len(a) + Len(b) = 0 THEN <<1, 1>>
  ELSE <<2 * MatchingSize(a, b, 1, Len(a), 1, Len(b)), Len(a) + Len(b)>>

\* the ratios of the specifications' names in lower case, computed once
Ratios ==
  Computed([x \in {lower(v) : v \in UNION {Members(SearchVariants[name]) : name \in KnownNames}}
            \X {lower(name) : name \in KnownNames} |-> ratio(x[1], x[2])])

RatioOf(a, b) == Lookup(Ratios, <<a, b>>, ratio(a, b))

\* r > n/d and r >= n/d for a ratio r
RatioGreater(r, n, d) == r[1] * d > n * r[2]

RatioAtLeast(r, n, d) == r[1] * d >= n * r[2]

(***************************************************************************)
(* txt-to-spotify.py: the resolvers                                        *)
(*                                                                         *)
(* A name is a string, or PyNone.  The remote service sp is a record of    *)
(* the responses it gives to the calls of one resolution; a response is    *)
(* the result of call_with_retry: the items returned, or an error raised   *)
(* after the retries.  A resolver's result carries the table it leaves     *)
(* and the number of remote calls it made; a search also carries the       *)
(* queries it sent, in the order it sent them.                             *)
(***************************************************************************)
\* bool(v)
Truthy(v) ==
  CASE v.t = "none" -> FALSE
    [] v.t = "str" -> v.s # <<>>
    [] v.t = "int" -> v.i # 0
    [] v.t = "float" -> v.f # 0
    [] v.t = "bool" -> v.b
    [] v.t = "list" -> v.l # <<>>
    [] v.t = "dict" -> DOMAIN v.d # {}

\* d.get(key, default) on a PyDict
Get(v, key, default) == IF key \in DOMAIN v.d THEN v.d[key] ELSE default

\* a name as a parameter value
NameValue(name) == IF name = PyNone THEN PyNone ELSE PyStr(name)

\* the first n elements of a list
Take(l, n) == SubSeq(l, 1, IF Len(l) < n THEN Len(l) ELSE n)

NoFault == [check |-> FALSE, update |-> FALSE]

\* a cache hit returning the stored value as it is
FromCache_marker(table, cached_result) ==
  [ ret |-> cached_result, source |-> "CACHE", table |-> table, calls |-> 0,
    searches |-> <<>> ]

\* what both searches return on a cache hit (lines 198-200 and 244-246)
FromCache(table, cached_result) ==
  [ ret |-> IF cached_result = PyStr(NOT_FOUND_MARKER) THEN PyNone ELSE cached_result,
    source |-> "CACHE", table |-> table, calls |-> 0, searches |-> <<>> ]

\* what sp.search answers to a query: a response may answer queries one by
\* one, or all queries alike
ResponseTo(response, query) ==
  IF "answers" \in DOMAIN response
  THEN IF query \in DOMAIN response.answers THEN response.answers[query]
       ELSE response.otherwise
  ELSE response

\* a search that caches what it found only
FromRemote_found_only(table, current_time, query_type, params, ret, searches, faults) ==
  [ ret |-> ret, source |-> "API", calls |-> Len(searches), searches |-> searches,
    table |-> IF ret = PyNone THEN table
              ELSE update_cache(table, current_time, query_type, params, ret, faults.update) ]

\* what both searches return after asking the remote service: the result is
\* cached, the marker when nothing was found (lines 214-216, 229-231, 235-236,
\* 261-262 and 326-338)
FromRemote(table, current_time, query_type, params, ret, searches, faults) ==
  [ ret |-> ret, source |-> "API", calls |-> Len(searches), searches |-> searches,
    table |-> update_cache(table, current_time, query_type, params,
                           IF ret = PyNone THEN PyStr(NOT_FOUND_MARKER) ELSE ret,
                           faults.update) ]

\* the artist test of stage 1 (line 213)
LooseArtistMatch(artist_v, found_artists) ==
  \E i \in 1..Len(found_artists) :
    \/ Contains(lower(found_artists[i]), lower(artist_v))
    \/ Contains(lower(artist_v), lower(found_artists[i]))

\* the artist test of stage 2 (line 228) and of song stage 3 (line 308)
FuzzyArtistMatch(artist_v, artists) ==
  \E i \in 1..Len(artists) :
    \/ Contains(lower(artists[i]), lower(artist_v))
    \/ Contains(lower(artist_v), lower(artists[i]))
    \/ RatioGreater(RatioOf(lower(artist_v), lower(artists[i])), 8, 10)

\* the items of a search, none when it raised
Items(results, limit) == IF results.raised THEN <<>> ELSE Take(results.items, limit)

\* stage 1 of search_album from the k-th artist variant of the a-th album
\* variant on (lines 206-217): one search per pair, until one is accepted
RECURSIVE AlbumStage1(_, _, _, _, _, _)
AlbumStage1(album_variants, artist_variants, a, k, response, searches) ==
  IF a > Len(album_variants) THEN [found |-> FALSE, searches |-> searches]
  ELSE IF k > Len(artist_variants)
  THEN AlbumStage1(album_variants, artist_variants, a + 1, 1, response, searches)
  ELSE LET query == AlbumQuery(album_variants[a], artist_variants[k])
           results == ResponseTo(response, query)
       IN IF /\ ~results.raised
             /\ Take(results.items, 1) # <<>>
             /\ LooseArtistMatch(artist_variants[k], results.items[1].artists)
          THEN [ found |-> TRUE, album_id |-> results.items[1].id,
                 searches |-> Append(searches, query) ]
          ELSE AlbumStage1(album_variants, artist_variants, a, k + 1, response,
                           Append(searches, query))

\* the first album of the items that one of the artist variants matches, 0
\* when there is none (lines 223-231)
FirstFuzzyAlbum(items, artist_variants) ==
  LET ok(i) == \E k \in 1..Len(artist_variants) :
                 FuzzyArtistMatch(artist_variants[k], items[i].artists)
  IN IF \E i \in 1..Len(items) : ok(i)
     THEN CHOOSE i \in 1..Len(items) : ok(i) /\ \A j \in 1..(i - 1) : ~ok(j)
     ELSE 0

\* stage 2 of search_album from the a-th album variant on (lines 220-232)
RECURSIVE AlbumStage2(_, _, _, _, _)
AlbumStage2(album_variants, artist_variants, a, response, searches) ==
  IF a > Len(album_variants) THEN [found |-> FALSE, searches |-> searches]
  ELSE LET query == FuzzyAlbumQuery(album_variants[a])
           items == Items(ResponseTo(response, query), 5)
           i == FirstFuzzyAlbum(items, artist_variants)
       IN IF i # 0
          THEN [ found |-> TRUE, album_id |-> items[i].id,
                 searches |-> Append(searches, query) ]
          ELSE AlbumStage2(album_variants, artist_variants, a + 1, response,
                           Append(searches, query))

\* a stage 2 that runs whatever stage 1 accepted
AlbumStages_always_fuzzy(album_variants, artist_variants, stage1, sp) ==
  AlbumStage2(album_variants, artist_variants, 1, sp.album_fuzzy, stage1.searches)

\* a stage 1 that met an error ends the search
AlbumStages_aborting(album_variants, artist_variants, stage1, sp) ==
  IF \/ stage1.found
     \/ \E i \in 1..Len(stage1.searches) : ResponseTo(sp.album_exact, stage1.searches[i]).raised
  THEN stage1
  ELSE AlbumStage2(album_variants, artist_variants, 1, sp.album_fuzzy, stage1.searches)

\* stage 2 follows a stage 1 that accepted nothing (lines 205-232)
AlbumStages(album_variants, artist_variants, stage1, sp) ==
  IF stage1.found THEN stage1
  ELSE AlbumStage2(album_variants, artist_variants, 1, sp.album_fuzzy, stage1.searches)

\* the result of search_album for what the cache and the stages returned
AlbumResult(table, current_time, params, cached_result, stage, faults) ==
  IF cached_result # PyNone THEN FromCache(table, cached_result)
  ELSE FromRemote(table, current_time, SEARCH_ALBUM_TYPE, params,
                  IF stage.found THEN PyStr(stage.album_id) ELSE PyNone,
                  stage.searches, faults)

\* search_album with its variants (lines 196-236)
AlbumSearch(table, current_time, params, album_variants, artist_variants, sp, faults) ==
  AlbumResult(table, current_time, params,
              check_cache(table, current_time, SEARCH_ALBUM_TYPE, params, faults.check),
              AlbumStages(album_variants, artist_variants,
                          AlbumStage1(album_variants, artist_variants, 1, 1, sp.album_exact, <<>>),
                          sp),
              faults)

\* search_album (lines 193-236)
search_album(table, current_time, album_name, artist_name, sp, faults) ==
  AlbumSearch(table, current_time,
              AlbumParams(NameValue(album_name), NameValue(artist_name)),
              SearchVariantsOf(album_name), SearchVariantsOf(artist_name), sp, faults)

\* the first element of items that ok accepts, 0 when there is none
FirstIndex(items, ok(_)) ==
  IF \E i \in 1..Len(items) : ok(items[i])
  THEN CHOOSE i \in 1..Len(items) : ok(items[i]) /\ \A j \in 1..(i - 1) : ~ok(items[j])
  ELSE 0

\* stage 2 of search_song accepts a track (lines 283-293)
SongStage2Accepts(primary_album_v, track) ==
  IF primary_album_v # PyNone
  THEN RatioGreater(RatioOf(lower(primary_album_v), lower(track.album)), 8, 10)
  ELSE TRUE

\* stage 3 accepting an album of similarity 0.7
SongStage3Accepts_album_inclusive(primary_song_v, primary_artist_v, primary_album_v, track) ==
  /\ RatioAtLeast(RatioOf(lower(primary_song_v), lower(track.name)), 8, 10)
  /\ FuzzyArtistMatch(primary_artist_v, track.artists)
  /\ \/ primary_album_v = PyNone
     \/ RatioAtLeast(RatioOf(lower(primary_album_v), lower(track.album)), 7, 10)

\* stage 3 of search_song accepts a track (lines 302-319)
SongStage3Accepts(primary_song_v, primary_artist_v, primary_album_v, track) ==
  /\ RatioAtLeast(RatioOf(lower(primary_song_v), lower(track.name)), 8, 10)
  /\ FuzzyArtistMatch(primary_artist_v, track.artists)
  /\ \/ primary_album_v = PyNone
     \/ RatioGreater(RatioOf(lower(primary_album_v), lower(track.album)), 7, 10)

\* the first of the variants, PyNone when there is none (lines 256-258)
Primary(variants) == IF variants # <<>> THEN variants[1] ELSE PyNone

\* what a stage of search_song found in the items of its search
SongStage(items, index, fuzzy_match_occurred, searches) ==
  IF index # 0
  THEN [ found |-> TRUE, searches |-> searches,
         track_info |-> TrackInfo(items[index].id, items[index].name, items[index].album,
                                  fuzzy_match_occurred) ]
  ELSE [found |-> FALSE, searches |-> searches]

\* the query of stage 1 of search_song (line 267)
ExactTrackQuery(song_v, album_v, artist_v) ==
  SearchQuery(Field(<<"t", "r", "a", "c", "k">>, song_v) \o <<" ">>
                \o Field(<<"a", "l", "b", "u", "m">>, album_v) \o <<" ">>
                \o Field(<<"a", "r", "t", "i", "s", "t">>, artist_v), "track", 1)

\* the query of stage 2 of search_song (line 278)
FieldTrackQuery(song_v, artist_v) ==
  SearchQuery(Field(<<"t", "r", "a", "c", "k">>, song_v) \o <<" ">>
                \o Field(<<"a", "r", "t", "i", "s", "t">>, artist_v), "track", 5)

\* the query of stage 3 of search_song (line 298)
GeneralTrackQuery(song_v, artist_v) == SearchQuery(song_v \o <<" ">> \o artist_v, "track", 5)

\* stage 1 of search_song for the items of its search (lines 265-273)
SongStage1Found(items, searches) == SongStage(items, IF items # <<>> THEN 1 ELSE 0, FALSE, searches)

\* stage 1 of search_song, skipped without an album (lines 265-273)
SongStage1(primary_song_v, primary_artist_v, primary_album_v, sp) ==
  IF primary_album_v = PyNone THEN [found |-> FALSE, searches |-> <<>>]
  ELSE SongStage1Found(
         Items(ResponseTo(sp.track_exact,
                          ExactTrackQuery(primary_song_v, primary_album_v, primary_artist_v)), 1),
         <<ExactTrackQuery(primary_song_v, primary_album_v, primary_artist_v)>>)

\* stage 2 of search_song (lines 276-294)
SongStage2(primary_album_v, items, searches) ==
  SongStage(items,
            FirstIndex(items, LAMBDA track : SongStage2Accepts(primary_album_v, track)),
            FALSE, searches)

\* stage 3 of search_song (lines 297-323)
SongStage3(primary_song_v, primary_artist_v, primary_album_v, items, searches) ==
  SongStage(items,
            FirstIndex(items, LAMBDA track : SongStage3Accepts(primary_song_v, primary_artist_v,
                                                               primary_album_v, track)),
            TRUE, searches)

\* stage 3 follows a stage 2 that found nothing
SongAfterStage2(primary_song_v, primary_artist_v, primary_album_v, stage2, sp) ==
  IF stage2.found THEN stage2
  ELSE SongStage3(primary_song_v, primary_artist_v, primary_album_v,
                  Items(ResponseTo(sp.track_general,
                                   GeneralTrackQuery(primary_song_v, primary_artist_v)), 5),
                  Append(stage2.searches, GeneralTrackQuery(primary_song_v, primary_artist_v)))

\* stage 2 follows a stage 1 that found nothing
SongAfterStage1(primary_song_v, primary_artist_v, primary_album_v, stage1, sp) ==
  IF stage1.found THEN stage1
  ELSE SongAfterStage2(primary_song_v, primary_artist_v, primary_album_v,
                       SongStage2(primary_album_v,
                                  Items(ResponseTo(sp.track_field,
                                                   FieldTrackQuery(primary_song_v, primary_artist_v)), 5),
                                  Append(stage1.searches,
                                         FieldTrackQuery(primary_song_v, primary_artist_v))),
                       sp)

\* the result of search_song for what the stages found (lines 326-338)
SongFound(table, current_time, params, stage, faults) ==
  FromRemote(table, current_time, SEARCH_SONG_TYPE, params,
             IF stage.found THEN stage.track_info ELSE PyNone, stage.searches, faults)

\* the result of search_song for what the cache returned and the primary
\* variants (lines 244-338)
SongResult(table, current_time, params, cached_result, song_v, artist_v, album_v, sp, faults) ==
  IF cached_result # PyNone THEN FromCache(table, cached_result)
  ELSE IF song_v = PyNone \/ artist_v = PyNone
  THEN FromRemote(table, current_time, SEARCH_SONG_TYPE, params, PyNone, <<>>, faults)
  ELSE SongFound(table, current_time, params,
                 SongAfterStage1(song_v, artist_v, album_v,
                                 SongStage1(song_v, artist_v, album_v, sp), sp),
                 faults)

\* search_song with its parameters (lines 242-338)
SongSearch(table, current_time, params, song_name, album_name, artist_name, sp, faults) ==
  SongResult(table, current_time, params,
             check_cache(table, current_time, SEARCH_SONG_TYPE, params, faults.check),
             Primary(Take(SearchVariantsOf(song_name), 2)),
             Primary(Take(SearchVariantsOf(artist_name), 1)),
             IF album_name # PyNone /\ album_name # <<>>
             THEN Primary(Take(SearchVariantsOf(album_name), 1))
             ELSE PyNone,
             sp, faults)

\* search_song (lines 238-338)
search_song(table, current_time, song_name, album_name, artist_name, sp, faults) ==
  SongSearch(table, current_time,
             SongParams(NameValue(song_name), NameValue(album_name), NameValue(artist_name)),
             song_name, album_name, artist_name, sp, faults)

PageLimit == 50

\* the pages of sp.album_tracks from offset on (lines 362-368): the number of
\* calls made
RECURSIVE ListingCalls(_, _)
ListingCalls(tracks, offset) ==
  LET page_tracks == SubSeq(tracks, offset + 1,
                            IF Len(tracks) < offset + PageLimit THEN Len(tracks)
                            ELSE offset + PageLimit)
  IN IF page_tracks = <<>> \/ Len(page_tracks) < PageLimit THEN 1
     ELSE 1 + ListingCalls(tracks, offset + Len(page_tracks))

\* the number of sp.tracks batches for n track ids (lines 371-374)
DetailBatches(n) == (n + PageLimit - 1) \div PageLimit

\* full_details_list for the tracks the remote service lists (lines 375-381)
FullDetailsList(tracks) ==
  PyList([i \in 1..Len(tracks) |->
            TrackDetail(tracks[i].id, tracks[i].name, tracks[i].popularity)])

\* sp.album_tracks(album_id, limit=limit, offset=offset): the items of the
\* page
AlbumTracksPage(tracks, limit, offset) ==
  SubSeq(tracks, offset + 1, IF Len(tracks) < offset + limit THEN Len(tracks) ELSE offset + limit)

\* the ids of a page (line 366)
PageIds(page_tracks) == [i \in 1..Len(page_tracks) |-> page_tracks[i].id]

\* a listing that asks for the first page only
AlbumTrackIds_first_page(tracks, page_tracks, offset, all_track_ids, offsets) ==
  [all_track_ids |-> all_track_ids \o PageIds(page_tracks), offsets |-> Append(offsets, offset)]

\* the loop of lines 361-368 with the page asked for at offset: all_track_ids
\* when the loop ends and the offsets asked for
RECURSIVE AlbumTrackIds(_, _, _, _, _)
AlbumTrackIds(tracks, page_tracks, offset, all_track_ids, offsets) ==
  IF page_tracks = <<>>
  THEN [all_track_ids |-> all_track_ids, offsets |-> Append(offsets, offset)]
  ELSE IF Len(page_tracks) < PageLimit
  THEN [all_track_ids |-> all_track_ids \o PageIds(page_tracks), offsets |-> Append(offsets, offset)]
  ELSE AlbumTrackIds(tracks, AlbumTracksPage(tracks, PageLimit, offset + Len(page_tracks)),
                     offset + Len(page_tracks), all_track_ids \o PageIds(page_tracks),
                     Append(offsets, offset))

\* batch_ids for every i of range(0, len(all_track_ids), 50) (lines 372-373)
BatchIds(all_track_ids) ==
  [ k \in 1..((Len(all_track_ids) + 49) \div 50) |->
      SubSeq(all_track_ids, 50 * (k - 1) + 1,
             IF Len(all_track_ids) < 50 * k THEN Len(all_track_ids) ELSE 50 * k) ]

\* sp.tracks(batch_ids) turned into detail records (lines 374-381)
BatchDetails(tracks, batch_ids) ==
  [ i \in 1..Len(batch_ids) |->
      \* the track of the catalogue with the id
      CHOOSE detail \in { TrackDetail(tracks[n].id, tracks[n].name, tracks[n].popularity) :
                          n \in {m \in 1..Len(tracks) : tracks[m].id = batch_ids[i]} } : TRUE ]

\* the details of the batches from the k-th on
RECURSIVE DetailsFrom(_, _, _)
DetailsFrom(tracks, batches, k) ==
  IF k > Len(batches) THEN <<>>
  ELSE BatchDetails(tracks, batches[k]) \o DetailsFrom(tracks, batches, k + 1)

\* what the two steps of the fetch (lines 359-381) ask for and collect
Fetch(tracks) ==
  LET listed == AlbumTrackIds(tracks, AlbumTracksPage(tracks, PageLimit, 0), 0, <<>>, <<>>)
      batches == BatchIds(listed.all_track_ids)
  IN [ offsets |-> listed.offsets, batches |-> batches,
       full_details_list |-> PyList(DetailsFrom(tracks, batches, 1)) ]

\* a fetch that caches the empty list of a failure
AlbumTrackDetails_failure_cached(table, current_time, params, cached_full_details, tracks, sp, faults) ==
  IF cached_full_details.t = "list"
  THEN [ raised |-> FALSE, ret |-> cached_full_details, source |-> "CACHE",
         table |-> table, calls |-> 0 ]
  ELSE IF sp.listing.tracks_raised \/ (tracks # <<>> /\ sp.listing.details_raised)
  THEN [ raised |-> FALSE, ret |-> PyList(<<>>), source |-> "API",
         table |-> update_cache(table, current_time, ALBUM_DETAILS_TYPE, params,
                                PyList(<<>>), faults.update),
         calls |-> 1 ]
  ELSE [ raised |-> FALSE, ret |-> FullDetailsList(tracks), source |-> "API",
         table |-> update_cache(table, current_time, ALBUM_DETAILS_TYPE, params,
                                FullDetailsList(tracks), faults.update),
         calls |-> ListingCalls(tracks, 0) + DetailBatches(Len(tracks)) ]

\* get_album_track_details after its check of the cache (lines 347-389).  A
\* cached list of another shape reaches clear_specific_cache, which
\* cache_manager does not define: the AttributeError leaves the function.
AlbumTrackDetails(table, current_time, params, cached_full_details, tracks, sp, faults) ==
  IF cached_full_details.t = "list"
  THEN IF \/ cached_full_details.l = <<>>
          \/ /\ cached_full_details.l[1].t = "dict"
             /\ IdKey \in DOMAIN cached_full_details.l[1].d
       THEN [ raised |-> FALSE, ret |-> cached_full_details, source |-> "CACHE",
              table |-> table, calls |-> 0 ]
       ELSE [ raised |-> TRUE, ret |-> PyNone, source |-> "N/A",
              table |-> table, calls |-> 0 ]
  ELSE IF sp.listing.tracks_raised
  THEN [ raised |-> FALSE, ret |-> PyList(<<>>), source |-> "API",
         table |-> table, calls |-> 1 ]
  ELSE IF tracks # <<>> /\ sp.listing.details_raised
  THEN [ raised |-> FALSE, ret |-> PyList(<<>>), source |-> "API",
         table |-> table, calls |-> ListingCalls(tracks, 0) + 1 ]
  ELSE [ raised |-> FALSE, ret |-> Fetch(tracks).full_details_list, source |-> "API",
         table |-> update_cache(table, current_time, ALBUM_DETAILS_TYPE, params,
                                Fetch(tracks).full_details_list, faults.update),
         calls |-> ListingCalls(tracks, 0) + DetailBatches(Len(tracks)) ]

\* get_album_track_details (lines 341-389); album_id is a Python value
get_album_track_details(table, current_time, album_id, sp, faults) ==
  AlbumTrackDetails(table, current_time, DetailsParams(album_id),
                    check_cache(table, current_time, ALBUM_DETAILS_TYPE,
                                DetailsParams(album_id), faults.check),
                    sp.listing.tracks, sp, faults)

\* a sort key that tells no track from another
Popularity_flat(track) == 0

\* the popularity a track is sorted by (line 407)
Popularity(track) == Get(track, PopularityKey, PyInt(0)).i

\* sorted(tracks, key=popularity, reverse=True): the most popular first, equal
\* ones in their order in tracks
RECURSIVE SortedByPopularity(_)
SortedByPopularity(tracks) ==
  IF tracks = <<>> THEN <<>>
  ELSE LET top == CHOOSE i \in 1..Len(tracks) :
                    /\ \A j \in 1..Len(tracks) : Popularity(tracks[j]) <= Popularity(tracks[i])
                    /\ \A j \in 1..(i - 1) : Popularity(tracks[j]) < Popularity(tracks[i])
       IN <<tracks[top]>>
            \o SortedByPopularity(SubSeq(tracks, 1, top - 1) \o SubSeq(tracks, top + 1, Len(tracks)))

\* top_tracks_output for the tracks sorted (lines 410-413)
TopTracksOutput(top) ==
  [i \in 1..Len(top) |-> [id |-> top[i].d[IdKey], name |-> top[i].d[NameKey]]]

\* get_top_tracks_from_album for the details fetched (lines 396-417)
TopTracks(details, count, exclude_ids) ==
  IF details.raised THEN [details EXCEPT !.ret = <<>>]
  ELSE [details EXCEPT !.ret =
          IF details.ret.l = <<>> THEN <<>>
          ELSE TopTracksOutput(
                 Take(SortedByPopularity(
                        SelectSeq(details.ret.l,
                                  LAMBDA track : /\ Truthy(Get(track, IdKey, PyNone))
                                                 /\ track.d[IdKey] \notin exclude_ids)),
                      count))]

\* get_top_tracks_from_album (lines 392-417); exclude_ids is a set of ids
get_top_tracks_from_album(table, current_time, album_id, count, exclude_ids, sp, faults) ==
  TopTracks(get_album_track_details(table, current_time, album_id, sp, faults),
            count, exclude_ids)

TRACKS_PER_RELEASE == 1

SourceCode(source) == IF source = "CACHE" THEN "C" ELSE "A"

\* what process_entry returns (line 573), with the table it leaves, the
\* number of remote calls it made and what its resolvers returned
EntryResult(track_id_to_add, status_code, source_code, is_duplicate, table, calls, resolved) ==
  [ track_id_to_add |-> track_id_to_add, status_code |-> status_code,
    source_code |-> source_code, is_duplicate |-> is_duplicate,
    table |-> table, calls |-> calls, resolved |-> resolved ]

\* a resolver's result without the table
Outcome(r) == [x \in DOMAIN r \ {"table"} |-> r[x]]

\* process_entry for what search_song returned (lines 517-530)
SongEntryResult(song, source_code, processed_ids, resolved) ==
  IF ~Truthy(song.ret)
  THEN EntryResult(PyNone, "N", source_code, FALSE, song.table, song.calls, resolved)
  ELSE IF song.ret.t # "dict" \/ {IdKey, NameKey} \ DOMAIN song.ret.d # {}
  THEN EntryResult(PyNone, "E", source_code, FALSE, song.table, song.calls, resolved)
  ELSE IF song.ret.d[IdKey] \in processed_ids
  THEN EntryResult(PyNone, "F", source_code, TRUE, song.table, song.calls, resolved)
  ELSE EntryResult(song.ret.d[IdKey], "F", source_code, FALSE, song.table, song.calls, resolved)

\* process_entry for a song, search_song having returned (lines 517-530)
SongSearched(song, processed_ids) ==
  SongEntryResult(song, SourceCode(song.source), processed_ids, [song |-> Outcome(song)])

\* process_entry for a song (lines 514-530)
ProcessSong(table, current_time, entry, processed_ids, sp, faults) ==
  SongSearched(search_song(table, current_time, entry.name, entry.album, entry.artist,
                           sp, faults.song),
               processed_ids)

\* an error of the track listing taken for an album without tracks
AlbumEntryResult_error_found(found, source_code, calls, processed_ids, resolved) ==
  IF found.raised \/ found.ret = <<>>
  THEN EntryResult(PyNone, "F", source_code, FALSE, found.table, calls, resolved)
  ELSE IF found.ret[1].id \in processed_ids
  THEN EntryResult(PyNone, "F", source_code, TRUE, found.table, calls, resolved)
  ELSE EntryResult(found.ret[1].id, "F", source_code, FALSE, found.table, calls, resolved)

\* process_entry for the album found and its top tracks (lines 544-564)
AlbumEntryResult(found, source_code, calls, processed_ids, resolved) ==
  IF found.raised
  THEN EntryResult(PyNone, "E", source_code, FALSE, found.table, calls, resolved)
  ELSE IF found.ret = <<>>
  THEN EntryResult(PyNone, "F", source_code, FALSE, found.table, calls, resolved)
  ELSE IF found.ret[1].id \in processed_ids
  THEN EntryResult(PyNone, "F", source_code, TRUE, found.table, calls, resolved)
  ELSE EntryResult(found.ret[1].id, "F", source_code, FALSE, found.table, calls, resolved)

\* process_entry for an album, its track details having been fetched (lines
\* 540-564): an error leaves source_code as the search set it
AlbumDetailed(album, details, processed_ids) ==
  AlbumEntryResult(TopTracks(details, TRACKS_PER_RELEASE, processed_ids),
                   IF details.source = "API" THEN "A" ELSE SourceCode(album.source),
                   album.calls + details.calls, processed_ids,
                   [album |-> Outcome(album), details |-> Outcome(details)])

\* process_entry for an album, search_album having returned (lines 535-566)
AlbumSearched(album, current_time, processed_ids, sp, faults) ==
  IF ~Truthy(album.ret)
  THEN EntryResult(PyNone, "N", SourceCode(album.source), FALSE, album.table, album.calls,
                   [album |-> Outcome(album)])
  ELSE AlbumDetailed(album,
                     get_album_track_details(album.table, current_time, album.ret,
                                             sp, faults.details),
                     processed_ids)

\* process_entry for an album (lines 532-566)
ProcessAlbum(table, current_time, entry, processed_ids, sp, faults) ==
  AlbumSearched(search_album(table, current_time, entry.name, entry.artist, sp, faults.album),
                current_time, processed_ids, sp, faults)

\* process_entry (lines 504-573)
process_entry(table, current_time, entry, processed_ids, sp, faults) ==
  IF entry.input_type = "song"
  THEN ProcessSong(table, current_time, entry, processed_ids, sp, faults)
  ELSE ProcessAlbum(table, current_time, entry, processed_ids, sp, faults)

(***************************************************************************)
(* The run specification: entries are processed, run after run             *)
(***************************************************************************)
MaxEntries == 2

NoFaults == [album |-> NoFault, details |-> NoFault, song |-> NoFault]

Faults == [check : BOOLEAN, update : BOOLEAN]

\* the storage failures that an entry's resolvers can meet
FaultsFor(entry) ==
  IF entry.input_type = "album"
  THEN [album : Faults, details : Faults, song : {NoFault}]
  ELSE [album : {NoFault}, details : {NoFault}, song : Faults]

\* from_remote: an album entry whose search returned an album id and whose
\* track listing was fetched, both from the remote service
FromRemoteService(resolved) ==
  /\ "details" \in DOMAIN resolved
  /\ resolved.album.source = "API"
  /\ ~resolved.details.raised /\ resolved.details.source = "API"
  /\ resolved.details.ret.l # <<>>

\* what process_entry returns, as the last call keeps it
Returned(r) == [x \in DOMAIN r \ {"table", "resolved"} |-> r[x]]

\* process_entry on the state
Resolution(entry, sp, faults) ==
  process_entry(api_cache, now, entry, processed_track_ids_this_run, sp, faults)

\* main's loop body (lines 662-669): one entry is processed against the remote
\* service sp, the storage failing as faults says, and its status is printed
\* (line 664) after the statuses printed for the entries before it
LoopBody(entry, sp, faults, printed) ==
  \E r \in {Resolution(entry, sp, faults)} :
     /\ nentries < MaxEntries
     /\ nentries' = nentries + 1
     /\ api_cache' = r.table
     /\ processed_track_ids_this_run' =
          IF Truthy(r.track_id_to_add)
          THEN processed_track_ids_this_run \cup {r.track_id_to_add}
          ELSE processed_track_ids_this_run
     /\ last' = [ op |-> "process_entry", entry |-> entry, sp |-> sp, faults |-> faults,
                  processed_before |-> processed_track_ids_this_run,
                  from_remote |-> FromRemoteService(r.resolved),
                  result |-> Returned(r),
                  resolved |-> r.resolved,
                  printed |-> Append(printed, r.status_code) ]
     /\ cold' = IF FromRemoteService(r.resolved)
                THEN (entry :> [ time |-> now, track_id |-> r.track_id_to_add,
                                 processed_before |-> processed_track_ids_this_run,
                                 same_run |-> TRUE ]) @@ cold
                ELSE cold
     /\ UNCHANGED <<now, written, nticks, nwrites>>
     /\ UNCHANGED <<raceVars, hashVars, retryVars>>

\* the loop body, the statuses of the entries before it left aside
ProcessEntry(entry, sp, faults) == LoopBody(entry, sp, faults, <<>>)

\* runs with a working store
RunNext ==
  \/ \E clear, removed \in BOOLEAN : StartRun(clear, removed)
  \/ \E entry \in Entries : \E sp \in RemotesFor(entry) : ProcessEntry(entry, sp, NoFaults)
  \/ \E d \in TickSteps : Tick(d)

SpecRun == Init /\ [][RunNext]_vars

\* the remote service of the resolutions with a failing store: the album is
\* found at once or not at all, the song at once or by the general search
FaultRemotesFor(entry) ==
  { sp \in RemotesFor(entry) :
      /\ sp.album_exact \in {NoItems, Response(FALSE, <<RemoteAlbum(IdX1, <<Radiohead>>)>>)}
      /\ sp.album_fuzzy = NoItems
      /\ ~sp.listing.tracks_raised
      /\ sp.track_general = NoItems \/ sp.track_exact = Raised }

\* resolutions with a store that may fail at every call
FaultNext ==
  \E entry \in Entries : \E sp \in FaultRemotesFor(entry), faults \in FaultsFor(entry) :
    ProcessEntry(entry, sp, faults)

SpecFault == Init /\ [][FaultNext]_vars

(***************************************************************************)
(* Properties of the run specifications                                    *)
(***************************************************************************)
\* an album entry has just been processed, no track having been added before
\* it in its run
AlbumProcessed ==
  /\ last.op = "process_entry"
  /\ last.entry.input_type = "album"
  /\ last.processed_before = {}

\* the id of the most popular track of a listing, the first of equals
MostPopular(tracks) ==
  tracks[CHOOSE i \in 1..Len(tracks) :
           /\ \A j \in 1..Len(tracks) : tracks[j].popularity <= tracks[i].popularity
           /\ \A j \in 1..(i - 1) : tracks[j].popularity < tracks[i].popularity].id

\* the entry was resolved from the remote service in an earlier run, no longer
\* ago than the expiry window allows, and the cache was not cleared since
Warmed ==
  /\ last.entry \in DOMAIN cold
  /\ ~cold[last.entry].same_run
  /\ cold[last.entry].processed_before = {}
  /\ now <= cold[last.entry].time + CACHE_EXPIRY_SECONDS - 1

\* C1: on a cold cache, an album entry whose search returns an album id and
\* whose track listing is fetched selects the highest-popularity track and
\* reports source API; the same entry in a later run against the cache warmed
\* by the first, within the expiry window, reports source CACHE, selects the
\* same track and issues no remote call.
C1_ColdThenWarm ==
  AlbumProcessed =>
    /\ last.from_remote =>
         /\ last.result.source_code = "A"
         /\ last.result.track_id_to_add = PyStr(MostPopular(last.sp.listing.tracks))
    /\ Warmed =>
         /\ last.result.source_code = "C"
         /\ last.result.track_id_to_add = cold[last.entry].track_id
         /\ last.result.calls = 0

\* what a resolver returns on an empty cache with a working store
OnEmptyCache(resolved) == Outcome(resolved)

\* C9: when the storage layer raises an error check_cache returns a miss and
\* update_cache returns normally, so search_album, search_song and
\* get_album_track_details return what they return with an empty working cache.
C9_StorageFailuresInvisible ==
  /\ \A q \in RunQueries :
       check_cache(api_cache, now, q.query_type, q.params_dict, TRUE) = PyNone
  /\ last.op = "process_entry" =>
       /\ (last.entry.input_type = "album" /\ last.faults.album.check) =>
            last.resolved.album =
              OnEmptyCache(search_album({}, now, last.entry.name, last.entry.artist,
                                        last.sp, NoFault))
       /\ ("details" \in DOMAIN last.resolved /\ last.faults.details.check) =>
            last.resolved.details =
              OnEmptyCache(get_album_track_details({}, now, last.resolved.album.ret,
                                                   last.sp, NoFault))
       /\ (last.entry.input_type = "song" /\ last.faults.song.check) =>
            last.resolved.song =
              OnEmptyCache(search_song({}, now, last.entry.name, last.entry.album,
                                       last.entry.artist, last.sp, NoFault))

\* every cache call of an album entry failed, on a cache that holds fresh
\* entries for the entry's album and for its track listing
C9_Witness ==
  /\ last.op = "process_entry"
  /\ last.entry = AlbumEntry
  /\ last.faults.album = [check |-> TRUE, update |-> TRUE]
  /\ last.faults.details = [check |-> TRUE, update |-> TRUE]
  /\ check_cache(api_cache, now, SEARCH_ALBUM_TYPE,
                 AlbumParams(PyStr(KidA), PyStr(Radiohead)), FALSE) = PyStr(IdX1)
  /\ check_cache(api_cache, now, ALBUM_DETAILS_TYPE, DetailsParams(PyStr(IdX1)), FALSE)
       = PyList(<<T1, T2>>)
  /\ last.resolved.album.source = "API"
  /\ "details" \in DOMAIN last.resolved
  /\ last.resolved.details.source = "API"
  /\ last.resolved.details.ret = PyList(<<T1, T2>>)

(***************************************************************************)
(* txt-to-spotify.py: the rate limiter and call_with_retry                 *)
(*                                                                         *)
(* Times are in milliseconds.  The wrapped function is the environment:    *)
(* each invocation takes some time and returns, or raises a                *)
(* SpotifyException with a status and a Retry-After header, or raises      *)
(* another exception.                                                      *)
(***************************************************************************)
MAX_RETRIES == 3

\* seconds
RETRY_DELAY == 5

\* 0.1 s
DEFAULT_DELAY == 100

MaxCalls == 4

\* how long an invocation of the wrapped function takes
CallDurations == {20, 250}

\* how long the caller works between two call_with_retry calls
IdleTimes == {0, 300}

\* e.headers.get('Retry-After', RETRY_DELAY) through int(): a number of
\* seconds, or unreadable (no headers, or not an integer), which raises in
\* the handler
RetryAfter(seconds) == [readable |-> TRUE, seconds |-> seconds]

Unreadable == [readable |-> FALSE, seconds |-> 0]

Success == [kind |-> "returned", http_status |-> 0, retry_after |-> Unreadable]

SpotifyError(http_status, retry_after) ==
  [kind |-> "SpotifyException", http_status |-> http_status, retry_after |-> retry_after]

OtherError == [kind |-> "Exception", http_status |-> 0, retry_after |-> Unreadable]

\* what an invocation of the wrapped function can do
Outcomes ==
  {Success, OtherError, SpotifyError(404, Unreadable)}
    \cup {SpotifyError(429, r) : r \in {Unreadable, RetryAfter(0), RetryAfter(RETRY_DELAY)}}

\* RateLimiter.wait (lines 48-52): the time at which it returns
wait(current_time, previous_call) ==
  IF current_time - previous_call < DEFAULT_DELAY
  THEN current_time + (DEFAULT_DELAY - (current_time - previous_call))
  ELSE current_time

\* a handler's effect: it raises, or sleeps and lets the loop go on
Raise == [raised |-> TRUE, sleep |-> 0]

Sleep(seconds) == [raised |-> FALSE, sleep |-> seconds * Millis]

\* a handler that retries after every SpotifyException
except_SpotifyException_retry(e, i) == Sleep(RETRY_DELAY)

\* except SpotifyException (lines 169-177)
except_SpotifyException(e, i) ==
  IF e.http_status = 429
  THEN IF e.retry_after.readable THEN Sleep(e.retry_after.seconds) ELSE Raise
  ELSE Raise

\* except Exception (lines 178-185)
except_Exception(e, i) ==
  IF i < MAX_RETRIES - 1 THEN Sleep(RETRY_DELAY * (i + 1)) ELSE Raise

\* the handler of an outcome that is not a return
Handled(e, i) ==
  IF e.kind = "SpotifyException" THEN except_SpotifyException(e, i)
  ELSE except_Exception(e, i)

\* a loop that never runs out of attempts
LoopEnds_never(i) == FALSE

\* range(MAX_RETRIES) is exhausted after attempt i (line 164)
LoopEnds(i) == i + 1 >= MAX_RETRIES

\* call_with_retry is called (line 162), the caller having worked for idle
CallWithRetry(idle) ==
  /\ pc = "idle"
  /\ ncalls < MaxCalls
  /\ clock' = clock + idle
  /\ attempt' = 0
  /\ pc' = "loop"
  /\ outbound' = [outbound EXCEPT !.outcomes = <<>>, !.slept = 0, !.ret = "none"]
  /\ UNCHANGED <<last_call, ncalls>>
  /\ UNCHANGED <<raceVars, hashVars, cacheVars, runVars>>

\* one iteration of the loop (lines 164-185, and line 187 after the last):
\* the rate limiter waits, the function is invoked and takes duration, and
\* its outcome e is returned or handled
Attempt(duration, e) ==
  /\ pc = "loop"
  /\ ncalls < MaxCalls
  /\ ncalls' = ncalls + 1
  /\ \E h \in {IF e.kind = "returned" THEN Raise ELSE Handled(e, attempt)} :
     \E start \in {wait(clock, last_call)} :
       /\ last_call' = start
       /\ clock' = start + duration + (IF e.kind = "returned" THEN 0 ELSE h.sleep)
       /\ attempt' = attempt + 1
       /\ pc' = IF e.kind = "returned" \/ h.raised \/ LoopEnds(attempt) THEN "idle" ELSE "loop"
       /\ outbound' =
            [ start |-> start, end |-> start + duration, prev_end |-> outbound.end,
              outcomes |-> Append(outbound.outcomes, e),
              slept |-> IF e.kind = "returned" THEN 0 ELSE h.sleep,
              ret |-> IF e.kind = "returned" THEN "returned"
                      ELSE IF h.raised \/ LoopEnds(attempt) THEN "raised"
                      ELSE "none" ]
  /\ UNCHANGED <<raceVars, hashVars, cacheVars, runVars>>

RetryNext ==
  \/ \E idle \in IdleTimes : CallWithRetry(idle)
  \/ \E duration \in CallDurations, e \in Outcomes : Attempt(duration, e)

SpecRetry == Init /\ [][RetryNext]_vars

(***************************************************************************)
(* Properties of the wrapper                                               *)
(***************************************************************************)
\* the outcomes of the invocations of the present call_with_retry
Invoked == outbound.outcomes

\* the outcome of the latest invocation
LatestOutcome == Invoked[Len(Invoked)]

\* C11: between the end of one outbound call made through call_with_retry and
\* the start of the next there are at least DEFAULT_DELAY (0.1 s), whatever
\* the calls' durations.
C11_MinimumInterval ==
  outbound.prev_end # Never => outbound.start - outbound.prev_end >= DEFAULT_DELAY

\* C12: one call_with_retry invokes the function at most MAX_RETRIES times,
\* never again after a success, and raises when all MAX_RETRIES attempts failed.
C12_BoundedAttempts ==
  /\ Len(Invoked) <= MAX_RETRIES
  /\ \A i \in 1..(Len(Invoked) - 1) : Invoked[i].kind # "returned"
  /\ (Invoked # <<>> /\ LatestOutcome.kind = "returned") <=> outbound.ret = "returned"
  /\ (Len(Invoked) = MAX_RETRIES /\ LatestOutcome.kind # "returned")
       => pc = "idle" /\ outbound.ret = "raised"

\* three attempts failed, by rate limits and by another error
C12_Witness ==
  /\ Len(Invoked) = MAX_RETRIES
  /\ Invoked[1].http_status = 429
  /\ Invoked[2].kind = "Exception"
  /\ Invoked[3].http_status = 429
  /\ outbound.ret = "raised"

\* C13: a SpotifyException whose status is not 429 leaves call_with_retry at
\* once, on whichever attempt: no sleep, no further invocation.
C13_NonRetryableError ==
  (/\ Invoked # <<>>
   /\ LatestOutcome.kind = "SpotifyException"
   /\ LatestOutcome.http_status # 429)
  => /\ pc = "idle"
     /\ outbound.ret = "raised"
     /\ outbound.slept = 0
     /\ clock = outbound.end

\* the error comes on the second attempt
C13_Witness ==
  /\ Len(Invoked) = 2
  /\ Invoked[1].kind = "Exception"
  /\ Invoked[2] = SpotifyError(404, Unreadable)
  /\ outbound.ret = "raised"
  /\ clock = outbound.end

\* C14: the sleep after an error that is not a rate limit is RETRY_DELAY times
\* the number of such errors so far in the call; an earlier rate-limit retry
\* does not make it longer.
C14_BackoffIgnoresRateLimits ==
  (/\ Invoked # <<>>
   /\ LatestOutcome.kind = "Exception"
   /\ outbound.ret = "none")
  => outbound.slept =
       RETRY_DELAY * Millis * Cardinality({i \in 1..Len(Invoked) : Invoked[i].kind = "Exception"})

(***************************************************************************)
(* The stage specification: search_album and search_song are called on the *)
(* store, for names with several variants and a remote service that        *)
(* answers query by query.                                                 *)
(***************************************************************************)
MaxSearches == 2

\* search_album(album_name, artist_name) is called (lines 193-236); the call
\* is recorded with the table it found and what check_cache returned on it
SearchAlbum(album_name, artist_name, sp) ==
  /\ nentries < MaxSearches
  /\ nentries' = nentries + 1
  /\ \E r \in {search_album(api_cache, now, album_name, artist_name, sp, NoFault)} :
       /\ api_cache' = r.table
       /\ last' = [ op |-> "search_album", song_name |-> PyNone, album_name |-> album_name,
                    artist_name |-> artist_name, sp |-> sp, table |-> api_cache,
                    cached_result |-> check_cache(api_cache, now, SEARCH_ALBUM_TYPE,
                                                  AlbumParams(NameValue(album_name),
                                                              NameValue(artist_name)), FALSE),
                    result |-> Outcome(r) ]
  /\ UNCHANGED <<now, written, nticks, nwrites, processed_track_ids_this_run, cold>>
  /\ UNCHANGED <<raceVars, hashVars, retryVars>>

\* search_song(song_name, album_name, artist_name) is called (lines 238-338)
SearchSong(song_name, album_name, artist_name, sp) ==
  /\ nentries < MaxSearches
  /\ nentries' = nentries + 1
  /\ \E r \in {search_song(api_cache, now, song_name, album_name, artist_name, sp, NoFault)} :
       /\ api_cache' = r.table
       /\ last' = [ op |-> "search_song", song_name |-> song_name, album_name |-> album_name,
                    artist_name |-> artist_name, sp |-> sp, table |-> api_cache,
                    cached_result |-> check_cache(api_cache, now, SEARCH_SONG_TYPE,
                                                  SongParams(NameValue(song_name),
                                                             NameValue(album_name),
                                                             NameValue(artist_name)), FALSE),
                    result |-> Outcome(r) ]
  /\ UNCHANGED <<now, written, nticks, nwrites, processed_track_ids_this_run, cold>>
  /\ UNCHANGED <<raceVars, hashVars, retryVars>>

StageNext ==
  \/ \E sp \in StageAlbumRemotes : SearchAlbum(Bracketed, Parenthesised, sp)
  \/ \E with_album \in BOOLEAN, sp \in StageSongRemotes :
       SearchSong(Idioteque, IF with_album THEN Bracketed ELSE PyNone, Parenthesised, sp)

SpecStages == Init /\ [][StageNext]_vars

\* the last call was a search
Searched == last.op \in {"search_album", "search_song"}

\* C15: when check_cache returns an entry for the query, search_album and
\* search_song return it (None for the not-found marker) with source CACHE,
\* send no query to the remote service and leave the table as it was.
C15_CacheHitShortCircuits ==
  (Searched /\ last.cached_result # PyNone)
  => /\ last.result =
          [ ret |-> IF last.cached_result = PyStr(NOT_FOUND_MARKER) THEN PyNone
                    ELSE last.cached_result,
            source |-> "CACHE", calls |-> 0, searches |-> <<>> ]
     /\ api_cache = last.table

\* the marker is cached for an album the remote service would now find at
\* its first query
C15_Witness ==
  /\ last.op = "search_album"
  /\ last.cached_result = PyStr(NOT_FOUND_MARKER)
  /\ last.sp.album_exact =
       Answering(AlbumQuery(Bracketed, Parenthesised), Response(FALSE, <<StageAlbum>>), NoItems)
  /\ last.result.ret = PyNone
  /\ last.result.source = "CACHE"

\* the last call was a search that missed the cache
SearchedRemote == Searched /\ last.cached_result = PyNone

\* the queries search_album can send, in the order of its loops: the pairs
\* of stage 1, the album variants outer and the artist variants inner, then
\* the album variants of stage 2
AlbumSearchOrder(album_variants, artist_variants) ==
  [ i \in 1..(Len(album_variants) * Len(artist_variants)) |->
      AlbumQuery(album_variants[((i - 1) \div Len(artist_variants)) + 1],
                 artist_variants[((i - 1) % Len(artist_variants)) + 1]) ]
    \o [i \in 1..Len(album_variants) |-> FuzzyAlbumQuery(album_variants[i])]

\* the i-th query of that order is answered with a candidate its stage accepts
AlbumAccepted(album_variants, artist_variants, sp, i) ==
  IF i <= Len(album_variants) * Len(artist_variants)
  THEN LET items == Items(ResponseTo(sp.album_exact,
                                     AlbumSearchOrder(album_variants, artist_variants)[i]), 1)
       IN /\ items # <<>>
          /\ LooseArtistMatch(artist_variants[((i - 1) % Len(artist_variants)) + 1],
                              items[1].artists)
  ELSE LET items == Items(ResponseTo(sp.album_fuzzy,
                                     AlbumSearchOrder(album_variants, artist_variants)[i]), 5)
       IN \E n \in 1..Len(items), k \in 1..Len(artist_variants) :
            FuzzyArtistMatch(artist_variants[k], items[n].artists)

\* the queries search_song can send, in the order of its stages
SongSearchOrder(song_v, album_v, artist_v) ==
  (IF album_v = PyNone THEN <<>> ELSE <<ExactTrackQuery(song_v, album_v, artist_v)>>)
    \o <<FieldTrackQuery(song_v, artist_v), GeneralTrackQuery(song_v, artist_v)>>

\* the i-th query of that order is answered with a candidate its stage accepts
SongAccepted(song_v, album_v, artist_v, sp, i) ==
  LET stage == IF album_v = PyNone THEN i + 1 ELSE i
  IN CASE stage = 1 ->
            Items(ResponseTo(sp.track_exact, ExactTrackQuery(song_v, album_v, artist_v)), 1) # <<>>
       [] stage = 2 ->
            LET items == Items(ResponseTo(sp.track_field, FieldTrackQuery(song_v, artist_v)), 5)
            IN \E n \in 1..Len(items) : SongStage2Accepts(album_v, items[n])
       [] stage = 3 ->
            LET items == Items(ResponseTo(sp.track_general, GeneralTrackQuery(song_v, artist_v)), 5)
            IN \E n \in 1..Len(items) : SongStage3Accepts(song_v, artist_v, album_v, items[n])

\* the queries of order up to the first one accepted, all of them when none is
UpToFirstAccepted(order, accepted(_)) ==
  LET hits == {i \in 1..Len(order) : accepted(i)}
  IN SubSeq(order, 1, IF hits = {} THEN Len(order)
                      ELSE CHOOSE i \in hits : \A j \in hits : i <= j)

\* C16: a search that misses the cache sends its queries in the order of its
\* stages (in search_album the pairs of the exact stage with the album
\* variants outer and the artist variants inner, then the fuzzy stage), and
\* sends none after the first query a candidate is accepted for: an exact
\* stage that accepts at the first pair is followed by no fuzzy search.  A
\* candidate is returned exactly when some query was accepted.
C16_StagedShortCircuit ==
  /\ (SearchedRemote /\ last.op = "search_album")
     => /\ last.result.searches =
             UpToFirstAccepted(
               AlbumSearchOrder(get_search_variants(last.album_name),
                                get_search_variants(last.artist_name)),
               LAMBDA i : AlbumAccepted(get_search_variants(last.album_name),
                                        get_search_variants(last.artist_name), last.sp, i))
        /\ last.result.ret # PyNone
             <=> AlbumAccepted(get_search_variants(last.album_name),
                               get_search_variants(last.artist_name), last.sp,
                               Len(last.result.searches))
  /\ (SearchedRemote /\ last.op = "search_song")
     => /\ last.result.searches =
             UpToFirstAccepted(
               SongSearchOrder(get_search_variants(last.song_name)[1], last.album_name,
                               get_search_variants(last.artist_name)[1]),
               LAMBDA i : SongAccepted(get_search_variants(last.song_name)[1], last.album_name,
                                       get_search_variants(last.artist_name)[1], last.sp, i))
        /\ last.result.ret # PyNone
             <=> SongAccepted(get_search_variants(last.song_name)[1], last.album_name,
                              get_search_variants(last.artist_name)[1], last.sp,
                              Len(last.result.searches))

\* the exact stage accepts at the first pair, and the fuzzy stage would have
\* found the album too
C16_Witness ==
  /\ SearchedRemote
  /\ last.op = "search_album"
  /\ last.sp.album_exact =
       Answering(AlbumQuery(Bracketed, Parenthesised), Response(FALSE, <<StageAlbum>>), NoItems)
  /\ last.sp.album_fuzzy =
       Answering(FuzzyAlbumQuery(Bracketed), Response(FALSE, <<OtherAlbum, StageAlbum>>), NoItems)
  /\ last.result.searches = <<AlbumQuery(Bracketed, Parenthesised)>>
  /\ last.result.ret = PyStr(IdX1)

\* a response with every error replaced by an answer without items
WithoutErrors(response) ==
  IF "answers" \in DOMAIN response
  THEN [ answers |-> [ query \in DOMAIN response.answers |->
                         IF response.answers[query].raised THEN NoItems
                         ELSE response.answers[query] ],
         otherwise |-> IF response.otherwise.raised THEN NoItems ELSE response.otherwise ]
  ELSE IF response.raised THEN NoItems ELSE response

\* the remote service finding nothing where sp raises
Quiet(sp) ==
  [ album_exact |-> WithoutErrors(sp.album_exact), album_fuzzy |-> WithoutErrors(sp.album_fuzzy),
    listing |-> sp.listing, track_exact |-> WithoutErrors(sp.track_exact),
    track_field |-> WithoutErrors(sp.track_field),
    track_general |-> WithoutErrors(sp.track_general) ]

\* some query of the last search was answered with an error
ErrorMet ==
  \E i \in 1..Len(last.result.searches) :
    \E response \in {last.sp.album_exact, last.sp.album_fuzzy, last.sp.track_exact,
                      last.sp.track_field, last.sp.track_general} :
      /\ (last.result.searches[i].type = "album")
           <=> (response \in {last.sp.album_exact, last.sp.album_fuzzy})
      /\ ResponseTo(response, last.result.searches[i]).raised

\* C17: an error of a remote search counts as a search that found nothing:
\* search_album and search_song go on with the next variant or stage and
\* return the result, the source and the queries they return when the remote
\* service answers those searches without items; they never raise.
C17_FailingAttemptsSwallowed ==
  /\ (SearchedRemote /\ last.op = "search_album")
     => /\ last.result =
             Outcome(search_album(last.table, now, last.album_name, last.artist_name,
                                  Quiet(last.sp), NoFault))
        /\ last.result.source = "API"
  /\ (SearchedRemote /\ last.op = "search_song")
     => /\ last.result =
             Outcome(search_song(last.table, now, last.song_name, last.album_name,
                                 last.artist_name, Quiet(last.sp), NoFault))
        /\ last.result.source = "API"

\* the first pair's search raises and the second pair's is accepted
C17_Witness ==
  /\ SearchedRemote
  /\ last.op = "search_album"
  /\ last.sp.album_exact =
       Answering(AlbumQuery(Bracketed, <<"S", "s">>), Response(FALSE, <<StageAlbum>>), Raised)
  /\ ErrorMet
  /\ last.result.searches =
       <<AlbumQuery(Bracketed, Parenthesised), AlbumQuery(Bracketed, <<"S", "s">>)>>
  /\ last.result.ret = PyStr(IdX1)

\* the query of the last search
SearchedQuery ==
  IF last.op = "search_album"
  THEN Query(SEARCH_ALBUM_TYPE,
             AlbumParams(NameValue(last.album_name), NameValue(last.artist_name)))
  ELSE Query(SEARCH_SONG_TYPE,
             SongParams(NameValue(last.song_name), NameValue(last.album_name),
                        NameValue(last.artist_name)))

\* the last search again, d seconds later, with the remote service sp
SearchedAgain(d, sp) ==
  IF last.op = "search_album"
  THEN Outcome(search_album(api_cache, now + d, last.album_name, last.artist_name, sp, NoFault))
  ELSE Outcome(search_song(api_cache, now + d, last.song_name, last.album_name,
                           last.artist_name, sp, NoFault))

\* a remote service that has the album and the song at the first query
Finding ==
  [ album_exact |-> Response(FALSE, <<StageAlbum>>),
    album_fuzzy |-> Response(FALSE, <<StageAlbum>>), listing |-> NoListing,
    track_exact |-> Response(FALSE, <<StageTrack>>),
    track_field |-> Response(FALSE, <<StageTrack>>),
    track_general |-> Response(FALSE, <<StageTrack>>) ]

\* C18: a search that misses the cache and accepts no candidate returns
\* (None, API) and leaves the not-found marker for its query; the same
\* search made again before CACHE_EXPIRY_SECONDS have passed returns
\* (None, CACHE) and sends no query, whatever the remote service holds then.
C18_ExhaustionCached ==
  (SearchedRemote /\ last.result.ret = PyNone)
  => /\ last.result.source = "API"
     /\ check_cache(api_cache, now, SearchedQuery.query_type, SearchedQuery.params_dict, FALSE)
          = PyStr(NOT_FOUND_MARKER)
     /\ \A d \in {0, CACHE_EXPIRY_SECONDS - 1} : \A sp \in {last.sp, Finding} :
          SearchedAgain(d, sp) =
            [ret |-> PyNone, source |-> "CACHE", calls |-> 0, searches |-> <<>>]

\* every query of the two stages was sent for the album and none accepted
C18_Witness ==
  /\ SearchedRemote
  /\ last.op = "search_album"
  /\ last.result.ret = PyNone
  /\ Len(last.result.searches) = 12
  /\ check_cache(api_cache, now, SEARCH_ALBUM_TYPE,
                 AlbumParams(PyStr(Bracketed), PyStr(Parenthesised)), FALSE)
       = PyStr(NOT_FOUND_MARKER)

(***************************************************************************)
(* The listing specification: get_top_tracks_from_album is called on the   *)
(* store for one album, whose listing the remote service returns or fails  *)
(* to return.                                                              *)
(***************************************************************************)
MaxListings == 2

MaxCount == 2

Counts == 0..MaxCount

ExcludeIds ==
  { {}, {PyStr(<<"t", "1">>)}, {PyStr(<<"t", "1">>), PyStr(<<"t", "2">>)} }

\* get_top_tracks_from_album(album_id, count, exclude_ids) is called (lines
\* 392-417); the call is recorded with the table it found, what check_cache
\* returned on it and what its get_album_track_details returned
GetTopTracks(album_id, count, exclude_ids, sp) ==
  /\ nentries < MaxListings
  /\ nentries' = nentries + 1
  /\ \E r \in {get_top_tracks_from_album(api_cache, now, album_id, count, exclude_ids, sp,
                                          NoFault)} :
       /\ api_cache' = r.table
       /\ last' = [ op |-> "get_top_tracks_from_album", album_id |-> album_id, count |-> count,
                    exclude_ids |-> exclude_ids, sp |-> sp, table |-> api_cache,
                    cached_full_details |->
                      check_cache(api_cache, now, ALBUM_DETAILS_TYPE, DetailsParams(album_id),
                                  FALSE),
                    details |-> Outcome(get_album_track_details(api_cache, now, album_id, sp,
                                                                NoFault)),
                    result |-> Outcome(r) ]
  /\ UNCHANGED <<now, written, nticks, nwrites, processed_track_ids_this_run, cold>>
  /\ UNCHANGED <<raceVars, hashVars, retryVars>>

ListingNext ==
  \E count \in Counts, exclude_ids \in ExcludeIds, sp \in ListingRemotes :
    GetTopTracks(PyStr(IdX1), count, exclude_ids, sp)

SpecListing == Init /\ [][ListingNext]_vars

\* the last call asked for the top tracks of an album
Listed == last.op = "get_top_tracks_from_album"

\* a remote call of the last get_album_track_details raised
FetchFailed ==
  /\ Listed
  /\ last.cached_full_details.t # "list"
  /\ \/ last.sp.listing.tracks_raised
     \/ last.sp.listing.tracks # <<>> /\ last.sp.listing.details_raised

\* C19: when sp.album_tracks or sp.tracks raises, get_album_track_details
\* returns the empty list with source API and leaves the table as it was, so
\* that its next call for the album asks the remote service again.
C19_FetchFailuresNotCached ==
  FetchFailed
  => /\ last.details.ret = PyList(<<>>)
     /\ last.details.source = "API"
     /\ ~last.details.raised
     /\ api_cache = last.table
     /\ \A sp \in ListingRemotes :
          /\ get_album_track_details(api_cache, now, last.album_id, sp, NoFault).source = "API"
          /\ get_album_track_details(api_cache, now, last.album_id, sp, NoFault).calls > 0

\* sp.tracks raises after the listing was returned, on a table without the
\* album
C19_Witness ==
  /\ FetchFailed
  /\ last.sp.listing.details_raised
  /\ last.details.calls = 2
  /\ last.table = {}
  /\ api_cache = {}
  /\ last.result.ret = <<>>

\* the tracks of the listing that exclude_ids leaves, by their places
Eligible(listing, exclude_ids) ==
  {i \in 1..Len(listing) : listing[i].d[IdKey] \notin exclude_ids}

\* the eligible tracks that come before the i-th in the order of popularity
\* descending, ties in catalogue order
Ahead(listing, exclude_ids, i) ==
  { j \in Eligible(listing, exclude_ids) :
      \/ listing[j].d[PopularityKey].i > listing[i].d[PopularityKey].i
      \/ /\ listing[j].d[PopularityKey].i = listing[i].d[PopularityKey].i
         /\ j < i }

\* C20: get_top_tracks_from_album returns the id and the name of the first
\* count tracks of the album's listing without the tracks of exclude_ids, in
\* the order of popularity descending with ties in catalogue order: no
\* excluded id, at most count tracks, and for count 1 with the most popular
\* track excluded the second most popular one.
C20_TopTrackSelection ==
  Listed
  => /\ Len(last.result.ret) =
          IF Cardinality(Eligible(last.details.ret.l, last.exclude_ids)) < last.count
          THEN Cardinality(Eligible(last.details.ret.l, last.exclude_ids))
          ELSE last.count
     /\ \A k \in 1..Len(last.result.ret) :
          \E i \in Eligible(last.details.ret.l, last.exclude_ids) :
            /\ Cardinality(Ahead(last.details.ret.l, last.exclude_ids, i)) = k - 1
            /\ last.result.ret[k] = [ id |-> last.details.ret.l[i].d[IdKey],
                                      name |-> last.details.ret.l[i].d[NameKey] ]
     /\ \A k \in 1..Len(last.result.ret) : last.result.ret[k].id \notin last.exclude_ids
     /\ Len(last.result.ret) <= last.count

\* count 1 with the most popular track t1 excluded: of t2 and t3, equally
\* popular, t2 is returned
C20_Witness ==
  /\ Listed
  /\ last.sp.listing.tracks = <<ListedTrack("1", 70), ListedTrack("2", 50), ListedTrack("3", 50)>>
  /\ last.details.source = "API"
  /\ last.count = 1
  /\ last.exclude_ids = {PyStr(<<"t", "1">>)}
  /\ last.result.ret = <<[id |-> PyStr(<<"t", "2">>), name |-> PyStr(<<"N", "2">>)]>>

(***************************************************************************)
(* The loop specification: main's loop over the entries of the input, on a *)
(* store that may hold, for the album, a track listing that an earlier     *)
(* version of the program left there: a list of track ids.                 *)
(***************************************************************************)
StaleListing == PyList(<<PyStr(<<"t", "1">>), PyStr(<<"t", "2">>)>>)

\* the statuses printed so far in the run
Printed == IF last.op = "process_entry" THEN last.printed ELSE <<>>

LoopNext ==
  \/ /\ nentries = 0
     /\ UpdateCache(Query(ALBUM_DETAILS_TYPE, DetailsParams(PyStr(IdX1))), StaleListing)
  \/ \E entry \in Entries : \E sp \in RemotesFor(entry) :
       LoopBody(entry, sp, NoFaults, Printed)

SpecLoop == Init /\ [][LoopNext]_vars

\* the last entry's resolution raised an error
EntryErrored ==
  /\ last.op = "process_entry"
  /\ "details" \in DOMAIN last.resolved
  /\ last.resolved.details.raised

\* C21: an entry whose resolution raises gets status E and no track id, and
\* adds nothing to the run's track ids; the loop goes on: every entry
\* processed so far, those after an error too, has its status printed, in
\* the order of processing.
C21_EntryErrorsContained ==
  /\ EntryErrored
     => /\ last.result.status_code = "E"
        /\ last.result.track_id_to_add = PyNone
        /\ processed_track_ids_this_run = last.processed_before
  /\ last.op = "process_entry"
     => /\ Len(last.printed) = nentries
        /\ last.printed[nentries] = last.result.status_code

\* the album's entry ends with an error, and the song's entry after it is
\* resolved and its track added
C21_Witness ==
  /\ last.op = "process_entry"
  /\ last.printed = <<"E", "F">>
  /\ last.entry = SongEntry
  /\ last.result.track_id_to_add = PyStr(RemoteSong.id)
  /\ processed_track_ids_this_run = {PyStr(RemoteSong.id)}

\* the cached track listing of the album is a non-empty list whose first
\* element is no record with an id
InvalidListingCached(album_id) ==
  \E cached \in {check_cache(api_cache, now, ALBUM_DETAILS_TYPE, DetailsParams(album_id), FALSE)} :
    /\ cached.t = "list"
    /\ cached.l # <<>>
    /\ ~(cached.l[1].t = "dict" /\ IdKey \in DOMAIN cached.l[1].d)

\* C29: with an invalid track listing cached for the album,
\* get_album_track_details fetches the listing from the remote service and
\* returns it with source API.
C29_InvalidListingRecovered ==
  InvalidListingCached(PyStr(IdX1))
  => \A listing \in {Listing(FALSE, FALSE, <<RemoteT1, RemoteT2>>)} :
       \E details \in {get_album_track_details(api_cache, now, PyStr(IdX1),
                                               [listing |-> listing], NoFault)} :
         /\ ~details.raised
         /\ details.source = "API"
         /\ details.ret = FullDetailsList(listing.tracks)

(***************************************************************************)
(* The variants specification: get_search_variants is applied to a name.   *)
(***************************************************************************)
MaxNameLen == 4

NameChars == {"a", " ", "[", "]", "(", ")"}

SigurRos ==
  << "S", "i", "g", "u", "r", " ", "R", "ó", "s", " ",
     "[", "I", "c", "e", "l", "a", "n", "d", "i", "c", "]" >>

\* a name with a parenthesis pair before a bracket pair
FooBarBaz ==
  <<"F", "o", "o", " ", "(", "B", "a", "r", ")", " ", "[", "B", "a", "z", "]">>

\* the empty name, the names of two to MaxNameLen characters, and the
\* examples
Names ==
  {<<>>, SigurRos, FooBarBaz} \cup UNION {[1..n -> NameChars] : n \in 2..MaxNameLen}

VariantsInit ==
  /\ last \in {[op |-> "name", name |-> name] : name \in Names}
  /\ api_cache = {} /\ now = 0 /\ written = <<>> /\ nticks = 0 /\ nwrites = 0
  /\ RunIdle /\ HashIdle /\ RetryIdle /\ RaceIdle

\* get_search_variants(name) is called (lines 151-159)
GetSearchVariants ==
  /\ last.op = "name"
  /\ last' = [ op |-> "get_search_variants", name |-> last.name,
               ret |-> get_search_variants(last.name) ]
  /\ UNCHANGED <<api_cache, now, written, nticks, nwrites>>
  /\ UNCHANGED <<raceVars, hashVars, runVars, retryVars>>

VariantsNext == GetSearchVariants

SpecVariants == VariantsInit /\ [][VariantsNext]_vars

\* the name has an open character with a close character after it
HasPair(name, open, close) ==
  \E o, c \in 1..Len(name) : o < c /\ name[o] = open /\ name[c] = close

\* what stands between the first open character and the first close
\* character after it, trimmed
PairContent(name, open, close) ==
  LET o == CHOOSE i \in 1..Len(name) : name[i] = open /\ \A j \in 1..(i - 1) : name[j] # open
      c == CHOOSE i \in (o + 1)..Len(name) :
             name[i] = close /\ \A j \in (o + 1)..(i - 1) : name[j] # close
  IN strip(SubSeq(name, o + 1, c - 1))

\* the bracket content, the parenthesis content when there are no brackets
Content(name) ==
  IF HasPair(name, "[", "]") THEN PairContent(name, "[", "]")
  ELSE PairContent(name, "(", ")")

\* the place after the bracketed or parenthesised part that starts at i, 0
\* when none starts there
PairEnd(name, i) ==
  LET close == IF name[i] = "[" THEN "]" ELSE IF name[i] = "(" THEN ")" ELSE ""
  IN IF \E c \in (i + 1)..Len(name) : name[c] = close
     THEN 1 + CHOOSE c \in (i + 1)..Len(name) :
                name[c] = close /\ \A j \in (i + 1)..(c - 1) : name[j] # close
     ELSE 0

\* the places of the name outside its bracketed and parenthesised parts,
\* read from place i on
RECURSIVE Outside(_, _)
Outside(name, i) ==
  IF i > Len(name) THEN {}
  ELSE IF PairEnd(name, i) # 0 THEN Outside(name, PairEnd(name, i))
  ELSE {i} \cup Outside(name, i + 1)

\* the name without its bracketed and parenthesised parts, trimmed
Stripped(name) ==
  LET places == Outside(name, 1)
      kept == [ k \in 1..Cardinality(places) |->
                 name[CHOOSE i \in places : Cardinality({j \in places : j < i}) = k - 1] ]
  IN strip(kept)

\* C22: for a non-empty name get_search_variants returns one to three
\* strings without duplicates: the name, then the bracket or parenthesis
\* content when the name has one and it differs from the name, then the
\* name without its bracketed parts when that is not empty and not listed
\* yet; for the empty name the empty list; for "Sigur Ros [Icelandic]" the
\* name, "Icelandic" and "Sigur Ros".
C22_SearchVariants ==
  last.op = "get_search_variants"
  => /\ last.name = <<>> => last.ret = <<>>
     /\ last.name # <<>>
          => /\ Len(last.ret) \in 1..3
             /\ \A i, j \in 1..Len(last.ret) : i # j => last.ret[i] # last.ret[j]
             /\ last.ret =
                  LET name == last.name
                      with_content ==
                        IF /\ HasPair(name, "[", "]") \/ HasPair(name, "(", ")")
                           /\ Content(name) # name
                        THEN <<name, Content(name)>> ELSE <<name>>
                  IN IF /\ Stripped(name) # <<>>
                        /\ \A i \in 1..Len(with_content) : with_content[i] # Stripped(name)
                     THEN Append(with_content, Stripped(name))
                     ELSE with_content
     /\ last.name = SigurRos
          => last.ret =
               << SigurRos, <<"I", "c", "e", "l", "a", "n", "d", "i", "c">>,
                  <<"S", "i", "g", "u", "r", " ", "R", "ó", "s">> >>

\* the example, and a name whose content equals its stripped form
C22_Witness ==
  /\ last.op = "get_search_variants"
  /\ \/ last.name = SigurRos /\ Len(last.ret) = 3
     \/ last.name = <<"a", "(", "a", ")">> /\ last.ret = <<last.name, <<"a">>>>

(***************************************************************************)
(* The race specification: two processes of the tool share DB_FILE and     *)
(* resolve the same query.  Each one runs check_cache, on a miss fetches   *)
(* a result and runs update_cache.  SQLite lets one connection write at a  *)
(* time: the INSERT of line 154 takes the write lock, commit (line 162)    *)
(* publishes the row and releases the lock; a connection that finds the    *)
(* lock taken waits, and when the timeout of line 21 passes raises         *)
(* sqlite3.Error, which update_cache catches (lines 163-164).              *)
(***************************************************************************)
Procs == {1, 2}

RaceQuery == Query(SEARCH_ALBUM_TYPE, AlbumParams(PyStr(KidA), PyStr(Radiohead)))

\* what a process fetches: an id, another id, nothing
RaceResults == {PyStr(Id12), PyStr(IdX1), PyNone}

\* the store is empty, or holds a row written an expiry window ago
RaceInit ==
  /\ now = CACHE_EXPIRY_SECONDS
  /\ api_cache \in { {}, update_cache({}, 0, RaceQuery.query_type, RaceQuery.params_dict, PyStr(Id12), FALSE) }
  /\ last = NoCall /\ written = <<>> /\ nticks = 0 /\ nwrites = 0
  /\ race = [ procs |-> [p \in Procs |-> [pc |-> "check"]], lock |-> 0, order |-> <<>> ]
  /\ main = NoMain /\ paging = NoPaging
  /\ RunIdle /\ HashIdle /\ RetryIdle

\* process p runs check_cache (lines 88-124); busy: the other process holds
\* the lock for longer than the timeout and the SELECT raises
RaceCheck(p, busy) ==
  /\ race.procs[p].pc = "check"
  /\ busy => race.lock \notin {0, p}
  /\ \E ret \in {check_cache(api_cache, now, RaceQuery.query_type, RaceQuery.params_dict, busy)} :
       /\ last' = [op |-> "check_cache", query |-> RaceQuery, ret |-> ret]
       /\ race' = [race EXCEPT !.procs[p] = IF ret = PyNone THEN [pc |-> "fetch"]
                                            ELSE [pc |-> "done", hit |-> ret]]
  /\ UNCHANGED <<api_cache, now, written, nticks, nwrites>>
  /\ UNCHANGED <<main, paging, hashVars, runVars, retryVars>>

\* process p, after its miss, fetches the result
RaceFetch(p, result) ==
  /\ race.procs[p].pc = "fetch"
  /\ race' = [race EXCEPT !.procs[p] = [pc |-> "update", result |-> result]]
  /\ UNCHANGED <<main, paging, cacheVars, hashVars, runVars, retryVars>>

\* process p enters update_cache: the digest, the time and the text of the
\* result are taken (lines 128-149)
RaceUpdate(p) ==
  /\ race.procs[p].pc = "update"
  /\ race' = [race EXCEPT !.procs[p] = [pc |-> "execute", result |-> @.result, current_time |-> now]]
  /\ UNCHANGED <<main, paging, cacheVars, hashVars, runVars, retryVars>>

\* process p executes its INSERT OR REPLACE (lines 154-161) and holds the
\* write lock
RaceExecute(p) ==
  /\ race.procs[p].pc = "execute"
  /\ race.lock = 0
  /\ race' = [race EXCEPT !.lock = p, !.procs[p].pc = "commit"]
  /\ UNCHANGED <<main, paging, cacheVars, hashVars, runVars, retryVars>>

\* process p commits (line 162) and returns from update_cache
RaceCommit(p) ==
  /\ race.procs[p].pc = "commit"
  /\ api_cache' = update_cache(api_cache, race.procs[p].current_time, RaceQuery.query_type, RaceQuery.params_dict, race.procs[p].result, FALSE)
  /\ written' = (Digest(RaceQuery) :> [result |-> race.procs[p].result, time |-> race.procs[p].current_time]) @@ written
  /\ nwrites' = nwrites + 1
  /\ last' = [op |-> "update_cache"]
  /\ race' = [race EXCEPT !.lock = 0, !.order = Append(@, p), !.procs[p].pc = "done"]
  /\ UNCHANGED <<now, nticks>>
  /\ UNCHANGED <<main, paging, hashVars, runVars, retryVars>>

\* process p finds the write lock taken until its timeout passes: the
\* sqlite3.Error is caught and printed (lines 163-164), update_cache returns
RaceBusy(p) ==
  /\ race.procs[p].pc = "execute"
  /\ race.lock \notin {0, p}
  /\ api_cache' = update_cache(api_cache, race.procs[p].current_time, RaceQuery.query_type, RaceQuery.params_dict, race.procs[p].result, TRUE)
  /\ last' = [op |-> "update_cache"]
  /\ race' = [race EXCEPT !.procs[p].pc = "done"]
  /\ UNCHANGED <<now, written, nticks, nwrites>>
  /\ UNCHANGED <<main, paging, hashVars, runVars, retryVars>>

RaceNext ==
  \/ \E p \in Procs, busy \in BOOLEAN : RaceCheck(p, busy)
  \/ \E p \in Procs, result \in RaceResults : RaceFetch(p, result)
  \/ \E p \in Procs : RaceUpdate(p)
  \/ \E p \in Procs : RaceExecute(p)
  \/ \E p \in Procs : RaceCommit(p)
  \/ \E p \in Procs : RaceBusy(p)
  \/ \E d \in TickSteps : Tick(d)

SpecRace == RaceInit /\ [][RaceNext]_vars

\* both processes missed, fetched and have returned from update_cache
BothUpdated ==
  \A p \in Procs : race.procs[p].pc = "done" /\ "result" \in DOMAIN race.procs[p]

\* C23: when two processes miss on the same key, fetch and call
\* update_cache, then in every interleaving the store ends with exactly
\* one row for the key, holding the value and the timestamp of the
\* update_cache that committed last, and both processes have come to their
\* end.
C23_RaceLastCommitWins ==
  BothUpdated
  => /\ race.order # <<>>
     /\ \E p \in {race.order[Len(race.order)]} :
          Select(api_cache, Digest(RaceQuery)) =
            {CacheRow(RaceQuery.query_type, RaceQuery.params_dict, race.procs[p].result, race.procs[p].current_time)}
     /\ race.lock = 0

\* both committed, the second one with another value and an older time
C23_Witness ==
  /\ BothUpdated
  /\ race.order = <<1, 2>>
  /\ race.procs[1].result # race.procs[2].result
  /\ race.procs[2].current_time < race.procs[1].current_time

(***************************************************************************)
(* The stages of search_song, under the stages specification               *)
(***************************************************************************)
\* the last call was a search_song that missed the cache and returned the
\* candidate it accepted for the query it sent last
SongAcceptedFor(query) ==
  /\ SearchedRemote
  /\ last.op = "search_song"
  /\ last.result.ret # PyNone
  /\ last.result.searches # <<>>
  /\ last.result.searches[Len(last.result.searches)] = query

\* the item of a response that the last search returned
ReturnedItem(response, query) ==
  CHOOSE track \in Members(Items(ResponseTo(response, query), 5)) :
    PyStr(track.id) = last.result.ret.d[IdKey]

\* C24: a track returned by the track+album+artist query of stage 1 is
\* accepted only if the similarity of the supplied album name and the
\* track's album name is greater than 0.8.
C24_Stage1AlbumSimilarity ==
  (/\ last.op = "search_song"
   /\ last.album_name # PyNone
   /\ SongAcceptedFor(ExactTrackQuery(last.song_name, last.album_name, last.artist_name)))
  => RatioGreater(ratio(lower(last.album_name), lower(last.result.ret.d[AlbumKey].s)), 8, 10)

\* C25: a candidate of the track+artist query of stage 2 is accepted only if
\* its name's similarity to the queried song is at least 0.95, one of its
\* artists matches the queried artist, and, when an album was supplied,
\* its album's similarity is greater than 0.8.
C25_Stage2Checks ==
  (/\ last.op = "search_song"
   /\ SongAcceptedFor(FieldTrackQuery(last.song_name, last.artist_name)))
  => \E track \in {ReturnedItem(last.sp.track_field, FieldTrackQuery(last.song_name, last.artist_name))} :
       /\ RatioAtLeast(ratio(lower(last.song_name), lower(track.name)), 95, 100)
       /\ FuzzyArtistMatch(last.artist_name, track.artists)
       /\ last.album_name # PyNone
            => RatioGreater(ratio(lower(last.album_name), lower(track.album)), 8, 10)

\* C26: a candidate of the general query of stage 3 is accepted only if its
\* name's similarity to the queried song is at least 0.8, one of its artists
\* matches the queried artist and, when an album was supplied, its album's
\* similarity is greater than 0.7; the track returned and cached has
\* fuzzy_matched true exactly when it was accepted at stage 3.
C26_Stage3ChecksAndFuzzyFlag ==
  /\ (/\ last.op = "search_song"
      /\ SongAcceptedFor(GeneralTrackQuery(last.song_name, last.artist_name)))
     => \E track \in {ReturnedItem(last.sp.track_general, GeneralTrackQuery(last.song_name, last.artist_name))} :
          /\ RatioAtLeast(RatioOf(lower(last.song_name), lower(track.name)), 8, 10)
          /\ FuzzyArtistMatch(last.artist_name, track.artists)
          /\ last.album_name # PyNone
               => RatioGreater(RatioOf(lower(last.album_name), lower(track.album)), 7, 10)
  /\ (SearchedRemote /\ last.op = "search_song" /\ last.result.ret # PyNone)
     => /\ last.result.ret.d[FuzzyMatchedKey] = PyBool(TRUE)
             <=> SongAcceptedFor(GeneralTrackQuery(last.song_name, last.artist_name))
        /\ check_cache(api_cache, now, SearchedQuery.query_type, SearchedQuery.params_dict, FALSE) = last.result.ret

\* stage 3 passes over a name of similarity 5/7 and an album of similarity
\* 0.7 and accepts the name of similarity 0.8 with the album of similarity
\* 0.75
C26_Witness ==
  /\ last.op = "search_song"
  /\ last.album_name # PyNone
  /\ last.album_name = Bracketed
  /\ SongAcceptedFor(GeneralTrackQuery(last.song_name, last.artist_name))
  /\ last.sp.track_general = Response(FALSE, <<FarTrack, LowAlbumTrack, EdgeTrack>>)
  /\ last.result.ret = TrackInfo(EdgeTrack.id, EdgeTrack.name, EdgeTrack.album, TRUE)
  /\ RatioOf(lower(last.song_name), lower(EdgeTrack.name)) = <<12, 15>>
  /\ RatioOf(lower(last.album_name), lower(LowAlbumTrack.album)) = <<14, 20>>

\* the remote service's answer to a query of the last search
AnswerTo(query) ==
  ResponseTo(IF query.type = "album"
             THEN (IF query.limit = 1 THEN last.sp.album_exact ELSE last.sp.album_fuzzy)
             ELSE IF query.limit = 1 THEN last.sp.track_exact
             ELSE IF query = FieldTrackQuery(last.song_name, last.artist_name)
             THEN last.sp.track_field
             ELSE last.sp.track_general,
             query)

\* C30: search_album and search_song leave the not-found marker for their
\* query only when at least one remote search of the resolution was
\* answered without an error.
C30_MarkerMeansSearched ==
  (/\ SearchedRemote
   /\ check_cache(api_cache, now, SearchedQuery.query_type, SearchedQuery.params_dict, FALSE)
        = PyStr(NOT_FOUND_MARKER))
  => \E i \in 1..Len(last.result.searches) : ~AnswerTo(last.result.searches[i]).raised

\* every search of the last call raised and the marker is in the store
AllSearchesFailed ==
  /\ SearchedRemote
  /\ last.result.searches # <<>>
  /\ \A i \in 1..Len(last.result.searches) : AnswerTo(last.result.searches[i]).raised
  /\ check_cache(api_cache, now, SearchedQuery.query_type, SearchedQuery.params_dict, FALSE)
       = PyStr(NOT_FOUND_MARKER)

(***************************************************************************)
(* The nameless specification: search_song is called with and without a    *)
(* song name and an artist name, on the store its earlier calls left.      *)
(***************************************************************************)
\* a song called "None"
NoneSong == <<"N", "o", "n", "e">>

\* a remote service without items
Nothing ==
  [ album_exact |-> NoItems, album_fuzzy |-> NoItems, listing |-> NoListing,
    track_exact |-> NoItems, track_field |-> NoItems, track_general |-> NoItems ]

\* the n-th choice of a song name: None, the empty string, "None"
SongChoice(n) == CASE n = 0 -> PyNone [] n = 1 -> <<>> [] n = 2 -> NoneSong

NamelessNext ==
  \E n \in 0..2, with_album, with_artist \in BOOLEAN, sp \in {Nothing, Finding} :
    SearchSong(SongChoice(n), IF with_album THEN Bracketed ELSE PyNone,
               IF with_artist THEN Parenthesised ELSE PyNone, sp)

SpecNameless == Init /\ [][NamelessNext]_vars

\* a name was given: not None and not the empty string
Given(name) == name # PyNone /\ name # <<>>

\* C27: search_song called without a song name or without an artist name
\* sends no query to the remote service and returns None as the result.
C27_NamelessNotFound ==
  (/\ last.op = "search_song"
   /\ ~Given(last.song_name) \/ ~Given(last.artist_name))
  => /\ last.result.searches = <<>>
     /\ last.result.ret = PyNone

(***************************************************************************)
(* The paging specification: get_album_track_details is called for albums  *)
(* of no track, of one track, of a page, of a page and one track and of    *)
(* two pages, with a remote service that raises no error.                  *)
(***************************************************************************)
AlbumSizes == {0, 1, PageLimit, PageLimit + 1, 2 * PageLimit}

\* the catalogue of an album of n tracks
Catalogue(n) == [i \in 1..n |-> [id |-> <<"t">> \o IntToStr(i), name |-> <<"N">> \o IntToStr(i), popularity |-> 50]]

PagedIds == {IdX1, Id12}

\* get_album_track_details(album_id) is called (lines 340-389) for an album
\* whose catalogue is tracks; the call is recorded with what check_cache
\* returned, what was asked of the remote service and what was returned
GetAlbumTrackDetails(album_id, tracks) ==
  /\ nentries < MaxListings
  /\ nentries' = nentries + 1
  /\ \E r \in {get_album_track_details(api_cache, now, album_id, [Nothing EXCEPT !.listing = Listing(FALSE, FALSE, tracks)], NoFault)} :
       /\ api_cache' = r.table
       /\ last' = [ op |-> "get_album_track_details", album_id |-> album_id, tracks |-> tracks,
                    cached_full_details |->
                      check_cache(api_cache, now, ALBUM_DETAILS_TYPE, DetailsParams(album_id), FALSE),
                    asked |-> [x \in {"offsets", "batches"} |-> Fetch(tracks)[x]],
                    result |-> Outcome(r) ]
  /\ UNCHANGED <<now, written, nticks, nwrites, processed_track_ids_this_run, cold>>
  /\ UNCHANGED <<raceVars, hashVars, retryVars>>

PagingNext ==
  \E id \in PagedIds, n \in AlbumSizes : GetAlbumTrackDetails(PyStr(id), Catalogue(n))

SpecPaging == Init /\ [][PagingNext]_vars

\* the last call fetched the listing from the remote service
Fetched == last.op = "get_album_track_details" /\ last.cached_full_details = PyNone

\* C28: on a cache miss without remote errors get_album_track_details asks
\* for pages of 50 at the offsets 0, 50, 100, ... until a page has fewer
\* than 50 items or none, asks for the details in batches of at most 50 ids
\* that together are the ids of the album in catalogue order, and returns
\* and caches one detail record per track in that order; the empty list of
\* an album without tracks is cached, and the next call returns it with
\* source CACHE.
C28_ListingComplete ==
  Fetched
  => /\ Len(last.asked.offsets) = (Len(last.tracks) \div PageLimit) + 1
     /\ \A i \in 1..Len(last.asked.offsets) : last.asked.offsets[i] = PageLimit * (i - 1)
     /\ \A k \in 1..Len(last.asked.batches) : Len(last.asked.batches[k]) \in 1..50
     /\ \A i \in 1..Len(last.tracks) :
          last.asked.batches[((i - 1) \div 50) + 1][((i - 1) % 50) + 1] = last.tracks[i].id
     /\ Len(last.asked.batches) = (Len(last.tracks) + 49) \div 50
     /\ last.result.source = "API"
     /\ last.result.ret = FullDetailsList(last.tracks)
     /\ Select(api_cache, QueryHashOf(ALBUM_DETAILS_TYPE, DetailsParams(last.album_id)))
          = {CacheRow(ALBUM_DETAILS_TYPE, DetailsParams(last.album_id), last.result.ret, now)}
     /\ last.tracks = <<>>
          => \E r \in {get_album_track_details(api_cache, now, last.album_id, [Nothing EXCEPT !.listing = Listing(FALSE, FALSE, Catalogue(1))], NoFault)} :
               r.ret = PyList(<<>>) /\ r.source = "CACHE" /\ r.calls = 0

\* an album of two pages: three pages asked for, two batches, 100 records
C28_Witness ==
  /\ Fetched
  /\ last.asked.offsets = <<0, 50, 100>>
  /\ Len(last.asked.batches) = 2
  /\ Len(last.result.ret.l) = 100
  /\ last.result.ret.l[51] = TrackDetail(<<"t", "5", "1">>, <<"N", "5", "1">>, 50)

\* the place of the first occurrence of a character in a name
FirstPlace(name, char) ==
  CHOOSE i \in 1..Len(name) : name[i] = char /\ \A j \in 1..(i - 1) : name[j] # char

\* C31: for a name with a parenthesis pair before a bracket pair the second
\* variant of get_search_variants is the content of the parenthesis pair.
C31_FirstPairIsAlias ==
  (/\ last.op = "get_search_variants"
   /\ HasPair(last.name, "(", ")")
   /\ HasPair(last.name, "[", "]")
   /\ FirstPlace(last.name, "(") < FirstPlace(last.name, "["))
  => last.ret[2] = PairContent(last.name, "(", ")")

(***************************************************************************)
(* The playlist specification: main reads a music file, processes its      *)
(* entries in order and hands the track ids to add_tracks_to_playlist, a   *)
(* batch at a time and the rest after the loop.  The files are the short   *)
(* ones over the entries of the run specification, and a long one: a       *)
(* hundred songs, the first of them again, and one more song.              *)
(***************************************************************************)
BATCH_SIZE == 100

\* the n-th song of the long file, and the remote service that has it
FreshEntry(n) ==
  [input_type |-> "song", name |-> <<"S", "g">> \o IntToStr(n), album |-> PyNone, artist |-> Radiohead]

FreshRemote(entry) ==
  [ Nothing EXCEPT !.track_field =
      Response(FALSE, <<RemoteTrack(<<"f">> \o SubSeq(entry.name, 3, Len(entry.name)), entry.name, KidA, <<Radiohead>>)>>) ]

LongFile ==
  [ i \in 1..(BATCH_SIZE + 2) |->
      IF i = BATCH_SIZE + 1 THEN FreshEntry(1)
      ELSE IF i > BATCH_SIZE THEN FreshEntry(i - 1) ELSE FreshEntry(i) ]

ShortFiles == UNION {[1..n -> Entries] : n \in 0..MaxEntries}

\* the remote services an entry of a file can meet
RemotesOf(entry) ==
  IF entry.input_type = "song" /\ entry.album = PyNone THEN {FreshRemote(entry)}
  ELSE RemotesFor(entry)

PlaylistInit ==
  /\ \/ \E entries \in ShortFiles : main = [NoMain EXCEPT !.entries = entries]
     \/ main = [NoMain EXCEPT !.entries = LongFile]
  /\ race = NoRace /\ paging = NoPaging
  /\ CacheIdle /\ RunIdle /\ HashIdle /\ RetryIdle

\* [str(tid) for tid in track_ids if tid] without repetitions, the first
\* occurrence kept (line 428); the track ids are strings
RECURSIVE CleanIds(_)
CleanIds(track_ids) ==
  IF Len(track_ids) <= 1 THEN SelectSeq(track_ids, Truthy)
  ELSE LET first == CleanIds(SubSeq(track_ids, 1, Len(track_ids) \div 2))
           rest == CleanIds(SubSeq(track_ids, Len(track_ids) \div 2 + 1, Len(track_ids)))
       IN first \o SelectSeq(rest, LAMBDA tid : tid \notin Members(first))

\* add_tracks_to_playlist (lines 421-455): the batches handed to
\* sp.playlist_add_items, each one raising or not as raised says
add_tracks_to_playlist(track_ids, raised) ==
  LET track_ids_clean == CleanIds(track_ids)
  IN [ k \in 1..((Len(track_ids_clean) + BATCH_SIZE - 1) \div BATCH_SIZE) |->
         [ batch |-> SubSeq(track_ids_clean, BATCH_SIZE * (k - 1) + 1,
                            IF Len(track_ids_clean) < BATCH_SIZE * k THEN Len(track_ids_clean)
                            ELSE BATCH_SIZE * k),
           raised |-> raised ] ]

\* a loop that does not empty its batch after adding it
BatchStep_kept(track_ids_to_add_batch, track_id) ==
  IF Truthy(track_id)
  THEN [ track_ids_to_add_batch |-> Append(track_ids_to_add_batch, track_id),
         adding |-> IF Len(track_ids_to_add_batch) + 1 >= BATCH_SIZE
                    THEN Append(track_ids_to_add_batch, track_id) ELSE <<>> ]
  ELSE [ track_ids_to_add_batch |-> track_ids_to_add_batch,
         adding |-> IF Len(track_ids_to_add_batch) >= BATCH_SIZE THEN track_ids_to_add_batch
                    ELSE <<>> ]

\* lines 666-676: the batch after an entry that returned track_id, and the
\* track ids handed to add_tracks_to_playlist, none below the batch size
BatchStep(track_ids_to_add_batch, track_id) ==
  IF Truthy(track_id)
  THEN IF Len(track_ids_to_add_batch) + 1 >= BATCH_SIZE
       THEN [track_ids_to_add_batch |-> <<>>, adding |-> Append(track_ids_to_add_batch, track_id)]
       ELSE [track_ids_to_add_batch |-> Append(track_ids_to_add_batch, track_id), adding |-> <<>>]
  ELSE IF Len(track_ids_to_add_batch) >= BATCH_SIZE
       THEN [track_ids_to_add_batch |-> <<>>, adding |-> track_ids_to_add_batch]
       ELSE [track_ids_to_add_batch |-> track_ids_to_add_batch, adding |-> <<>>]

\* one turn of main's loop (lines 662-676): the next entry of the file is
\* processed against the remote service sp, its track id joins the batch,
\* and a batch that has reached BATCH_SIZE is added to the playlist
MainEntry(sp, raised) ==
  /\ ~main.ended
  /\ main.i < Len(main.entries)
  /\ sp \in RemotesOf(main.entries[main.i + 1])
  /\ \E r \in {Resolution(main.entries[main.i + 1], sp, NoFaults)} :
       \E step \in {BatchStep(main.track_ids_to_add_batch, r.track_id_to_add)} :
         /\ raised => step.adding # <<>>
         /\ api_cache' = r.table
         /\ processed_track_ids_this_run' =
              IF Truthy(r.track_id_to_add)
              THEN processed_track_ids_this_run \cup {r.track_id_to_add}
              ELSE processed_track_ids_this_run
         /\ last' = [op |-> "process_entry", entry |-> main.entries[main.i + 1], result |-> Returned(r)]
         /\ main' = [ main EXCEPT
                        !.i = @ + 1,
                        !.track_ids_to_add_batch = step.track_ids_to_add_batch,
                        !.returned = IF Truthy(r.track_id_to_add) THEN Append(@, r.track_id_to_add) ELSE @,
                        !.playlist_add_items = @ \o add_tracks_to_playlist(step.adding, raised) ]
  /\ nentries' = nentries + 1
  /\ UNCHANGED <<race, paging, now, written, nticks, nwrites, cold>>
  /\ UNCHANGED <<hashVars, retryVars>>

\* after the loop (lines 678-683): the batch that is left is added
MainEnd(raised) ==
  /\ ~main.ended
  /\ main.i = Len(main.entries)
  /\ raised => main.track_ids_to_add_batch # <<>>
  /\ main' = [ main EXCEPT
                 !.ended = TRUE,
                 !.playlist_add_items = @ \o add_tracks_to_playlist(main.track_ids_to_add_batch, raised) ]
  /\ last' = [op |-> "main"]
  /\ UNCHANGED <<race, paging, api_cache, now, written, nticks, nwrites>>
  /\ UNCHANGED <<hashVars, runVars, retryVars>>

PlaylistNext ==
  \/ \E raised \in BOOLEAN : \E sp \in AlbumRemotes \cup SongRemotes \cup {FreshRemote(FreshEntry(n)) : n \in 1..(BATCH_SIZE + 1)} : MainEntry(sp, raised)
  \/ \E raised \in BOOLEAN : MainEnd(raised)

SpecPlaylist == PlaylistInit /\ [][PlaylistNext]_vars

\* the track ids handed to sp.playlist_add_items, batch after batch
RECURSIVE Submitted(_)
Submitted(calls) == IF calls = <<>> THEN <<>> ELSE Head(calls).batch \o Submitted(Tail(calls))

C33_IdentifierRoundTrip ==
  (/\ CheckedAfterWrite
   /\ WithinWindow(LastWrite)
   /\ last.query.query_type = SEARCH_ALBUM_TYPE
   /\ LastWrite.result.t = "str"
   /\ LastWrite.result.s # <<>>
   /\ LastWrite.result.s # NOT_FOUND_MARKER)
  => last.ret = LastWrite.result

(***************************************************************************)
(* The albumless specification: search_song is called for a song without   *)
(* an album and for the same song with the album name "None", on the       *)
(* store its earlier calls left.                                           *)
(***************************************************************************)
\* a track of the album called "None"
NoneAlbumTrack == RemoteTrack(<<"s", "4">>, Idioteque, NoneSong, <<Parenthesised>>)

AlbumlessRemotes ==
  { Nothing, Finding,
    [Nothing EXCEPT !.track_exact = Response(FALSE, <<NoneAlbumTrack>>)],
    [Nothing EXCEPT !.track_general = Response(FALSE, <<OtherTrack, StageTrack>>)] }

AlbumlessNext ==
  \E with_album \in BOOLEAN, song_name \in {Idioteque, NoneSong}, sp \in AlbumlessRemotes :
    SearchSong(song_name, IF with_album THEN NoneSong ELSE PyNone, Parenthesised, sp)

SpecAlbumless == Init /\ [][AlbumlessNext]_vars

\* the query of the last search_song call with album_name in the place of
\* its album name
SongQueryWith(album_name) ==
  Query(SEARCH_SONG_TYPE,
        SongParams(NameValue(last.song_name), album_name, NameValue(last.artist_name)))

\* C34: the query of search_song for a song without an album and the query
\* for the same song and artist with the album name "None" have different
\* digests: neither call reads or writes the cache entry of the other.
C34_NoAlbumIsNotNoneAlbum ==
  last.op = "search_song"
    => Digest(SongQueryWith(PyNone)) # Digest(SongQueryWith(PyStr(NoneSong)))

\* a call without an album returns the track of the album "None", which
\* the remote service gives to the query with that album only
AlbumlessAnsweredFromNoneAlbum ==
  /\ last.op = "search_song"
  /\ last.album_name = PyNone
  /\ last.result.ret = TrackInfo(<<"s", "4">>, Idioteque, NoneSong, FALSE)

NeverAnsweredFromNoneAlbum == ~AlbumlessAnsweredFromNoneAlbum

(***************************************************************************)
(* The paging loop specification: the loop of get_album_track_details      *)
(* over the pages of an album (lines 360-368), step by step.  Each page is *)
(* asked for through call_with_retry, whose attempts return, raise or are  *)
(* repeated as the remote service decides; the page returned is the one    *)
(* the album has at the offset asked for.                                  *)
(***************************************************************************)
PagingLoopInit ==
  /\ \E n \in AlbumSizes : paging = [NoPaging EXCEPT !.pc = "while", !.tracks = n]
  /\ race = NoRace /\ main = NoMain
  /\ CacheIdle /\ RunIdle /\ HashIdle /\ RetryIdle

\* how long sp.album_tracks takes
PageDurations == {250}

\* a loop that asks for the same page again
NextOffset_same(offset, page_tracks) == offset

\* offset += len(page_tracks) (line 367)
NextOffset(offset, page_tracks) == offset + Len(page_tracks)

\* line 362: call_with_retry(sp.album_tracks, album_id, limit, offset) is
\* entered
PageCall ==
  /\ paging.pc = "while"
  /\ pc = "idle"
  /\ paging' = [paging EXCEPT !.pc = "call", !.offsets = Append(@, paging.offset)]
  /\ attempt' = 0
  /\ pc' = "loop"
  /\ outbound' = [outbound EXCEPT !.outcomes = <<>>, !.slept = 0, !.ret = "none"]
  /\ UNCHANGED <<race, main, clock, last_call, ncalls>>
  /\ UNCHANGED <<hashVars, cacheVars, runVars>>

\* one iteration of the loop of call_with_retry inside the paging loop
\* (lines 164-185, and line 187 after the last)
PageAttempt(duration, e) ==
  /\ paging.pc = "call"
  /\ pc = "loop"
  /\ ncalls' = ncalls + 1
  /\ \E h \in {IF e.kind = "returned" THEN Raise ELSE Handled(e, attempt)} :
     \E start \in {wait(clock, last_call)} :
       /\ last_call' = start
       /\ clock' = start + duration + (IF e.kind = "returned" THEN 0 ELSE h.sleep)
       /\ attempt' = attempt + 1
       /\ pc' = IF e.kind = "returned" \/ h.raised \/ LoopEnds(attempt) THEN "idle" ELSE "loop"
       /\ outbound' =
            [ start |-> start, end |-> start + duration, prev_end |-> outbound.end,
              outcomes |-> Append(outbound.outcomes, e),
              slept |-> IF e.kind = "returned" THEN 0 ELSE h.sleep,
              ret |-> IF e.kind = "returned" THEN "returned"
                      ELSE IF h.raised \/ LoopEnds(attempt) THEN "raised"
                      ELSE "none" ]
  /\ UNCHANGED <<race, main, paging>>
  /\ UNCHANGED <<hashVars, cacheVars, runVars>>

\* lines 363-368: the page returned is taken, and the loop goes on or is left
PageTaken ==
  /\ paging.pc = "call"
  /\ pc = "idle"
  /\ outbound.ret = "returned"
  /\ \E page_tracks \in {AlbumTracksPage(Catalogue(paging.tracks), PageLimit, paging.offset)} :
       paging' =
         IF page_tracks = <<>> THEN [paging EXCEPT !.pc = "done"]
         ELSE [ paging EXCEPT
                  !.all_track_ids = @ \o PageIds(page_tracks),
                  !.offset = NextOffset(@, page_tracks),
                  !.pc = IF Len(page_tracks) < PageLimit THEN "done" ELSE "while" ]
  /\ UNCHANGED <<race, main>>
  /\ UNCHANGED <<hashVars, cacheVars, runVars, retryVars>>

\* the call raised: the loop is left through the handler of line 386
PageRaised ==
  /\ paging.pc = "call"
  /\ pc = "idle"
  /\ outbound.ret = "raised"
  /\ paging' = [paging EXCEPT !.pc = "raised"]
  /\ UNCHANGED <<race, main>>
  /\ UNCHANGED <<hashVars, cacheVars, runVars, retryVars>>

PagingLoopNext ==
  \/ PageCall
  \/ \E duration \in PageDurations, e \in Outcomes : PageAttempt(duration, e)
  \/ PageTaken
  \/ PageRaised

\* every step of the loop that can be taken is taken: the invocation of
\* the remote service ends, and the sleeps are finite
SpecPagingLoop == PagingLoopInit /\ [][PagingLoopNext]_vars /\ WF_vars(PagingLoopNext)

\* the offsets asked for grow, there are no more pages asked for than the
\* album has and one, and no call makes more than MAX_RETRIES attempts
PagingBounded ==
  /\ \A i \in 1..(Len(paging.offsets) - 1) : paging.offsets[i] < paging.offsets[i + 1]
  /\ Len(paging.offsets) <= paging.tracks \div PageLimit + 1
  /\ attempt <= MAX_RETRIES
  /\ Len(outbound.outcomes) <= MAX_RETRIES
  /\ Len(outbound.outcomes) = attempt

\* C35: the paging loop of get_album_track_details asks for strictly
\* increasing offsets, every call_with_retry in it ends by returning or by
\* raising after at most MAX_RETRIES attempts, and the loop is left after
\* finitely many page requests.
C35_PaginationTerminates ==
  /\ []PagingBounded
  /\ (pc = "loop") ~> (pc = "idle" /\ outbound.ret \in {"returned", "raised"})
  /\ <>(paging.pc \in {"done", "raised"})

\* an album of two full pages was listed with three page requests, the
\* last of them answered at the third attempt
C35_Witness ==
  /\ paging.pc = "done"
  /\ paging.tracks = 2 * PageLimit
  /\ paging.offsets = <<0, PageLimit, 2 * PageLimit>>
  /\ Len(paging.all_track_ids) = 2 * PageLimit
  /\ Len(outbound.outcomes) = MAX_RETRIES
  /\ outbound.ret = "returned"

====
